---- MODULE Spec2Model ----
(***************************************************************************)
(* RunBridge: the CGI transport (src/src/cgi/) and the dispatch pipeline   *)
(* it drives.  One behaviour of the model is one invocation of the CGI     *)
(* binary: the environment and standard input are fixed by Init, run_cgi   *)
(* ingests them, the supervised task runs process_request, and the framer  *)
(* writes the response to standard output.                                 *)
(*                                                                         *)
(* Strings are sequences of bytes (UTF-8), so that the byte-level checks   *)
(* of the code (header validation, case folding, slicing) are computed and *)
(* not assumed.  The str_ tables hold the string literals of the source.   *)
(*                                                                         *)
(* What the model does not represent: the query string and the Request's   *)
(* query_params; the log file and the log lines other than the text of    *)
(* the panic-context record; a failing write to standard output;           *)
(* environment values that are not UTF-8.  The gzip                        *)
(* decoder and the regex engine are libraries: the decoder is known by     *)
(* what it yields for the bodies of the model, and the patterns are        *)
(* alternations of literal text with '.', '.*' and anchors; of the         *)
(* patterns that do not compile, only an unclosed '[' is told apart.       *)
(* Handlers and middlewares are application code: each call returns Ok,    *)
(* returns an Err or panics, and the model takes every one of these.       *)
(*                                                                         *)
(* Spec is one invocation of the CGI binary.  SpecRoutes builds a route    *)
(* table with RunBridgeBuilder::handler and looks paths up in it.          *)
(* SpecSanitizer applies is_valid_header_value to header values.           *)
(* SpecCalls calls functions on their own: the Set-Cookie splitter, the    *)
(* panic-context record and its redaction, the Response constructors and   *)
(* with_header, the framer on a built Response, get_cgi_headers in two     *)
(* enumeration orders, and the dispatch of one Request by the pipelines    *)
(* of the CGI, Lambda and Cloud Run transports.                            *)
(***************************************************************************)
EXTENDS Integers, Sequences, FiniteSets, TLC

\* cgi/core.rs, run_cgi and process_request: the string literals.
str_core ==
    [REQUEST_METHOD |->
        \* 'REQUEST_METHOD'
        <<82, 69, 81, 85, 69, 83, 84, 95, 77, 69, 84, 72, 79, 68>>,
     PATH_INFO |->
        \* 'PATH_INFO'
        <<80, 65, 84, 72, 95, 73, 78, 70, 79>>,
     slash |->
        \* '/'
        <<47>>,
     Content_Type |->
        \* 'Content-Type'
        <<67, 111, 110, 116, 101, 110, 116, 45, 84, 121, 112, 101>>,
     text_plain |->
        \* 'text/plain'
        <<116, 101, 120, 116, 47, 112, 108, 97, 105, 110>>,
     Payload_Too_Large |->
        \* 'Payload Too Large'
        <<80, 97, 121, 108, 111, 97, 100, 32, 84, 111, 111, 32, 76, 97, 114, 103, 101>>,
     Bad_Request_colon |->
        \* 'Bad Request: '
        <<66, 97, 100, 32, 82, 101, 113, 117, 101, 115, 116, 58, 32>>,
     Not_Found_colon |->
        \* 'Not Found: '
        <<78, 111, 116, 32, 70, 111, 117, 110, 100, 58, 32>>,
     Internal_Server_Error_colon |->
        \* 'Internal Server Error: '
        <<73, 110, 116, 101, 114, 110, 97, 108, 32, 83, 101, 114, 118, 101, 114, 32, 69, 114, 114, 111, 114, 58, 32>>,
     Internal_Server_Error |->
        \* 'Internal Server Error'
        <<73, 110, 116, 101, 114, 110, 97, 108, 32, 83, 101, 114, 118, 101, 114, 32, 69, 114, 114, 111, 114>>,
     space |->
        \* ' '
        <<32>>]

\* cgi/request.rs: the string literals.
str_request ==
    [HTTP_ |->
        \* 'HTTP_'
        <<72, 84, 84, 80, 95>>,
     CONTENT_TYPE |->
        \* 'CONTENT_TYPE'
        <<67, 79, 78, 84, 69, 78, 84, 95, 84, 89, 80, 69>>,
     CONTENT_LENGTH |->
        \* 'CONTENT_LENGTH'
        <<67, 79, 78, 84, 69, 78, 84, 95, 76, 69, 78, 71, 84, 72>>]

\* common/http.rs, Method: the names of the methods.
str_method ==
    [GET |->
        \* 'GET'
        <<71, 69, 84>>,
     POST |->
        \* 'POST'
        <<80, 79, 83, 84>>,
     PUT |->
        \* 'PUT'
        <<80, 85, 84>>,
     DELETE |->
        \* 'DELETE'
        <<68, 69, 76, 69, 84, 69>>,
     PATCH |->
        \* 'PATCH'
        <<80, 65, 84, 67, 72>>,
     HEAD |->
        \* 'HEAD'
        <<72, 69, 65, 68>>,
     OPTIONS |->
        \* 'OPTIONS'
        <<79, 80, 84, 73, 79, 78, 83>>]

\* common/http.rs, Request and Response: the string literals.
str_http ==
    [content_encoding |->
        \* 'content-encoding'
        <<99, 111, 110, 116, 101, 110, 116, 45, 101, 110, 99, 111, 100, 105, 110, 103>>,
     gzip |->
        \* 'gzip'
        <<103, 122, 105, 112>>,
     Content_Type |->
        \* 'Content-Type'
        <<67, 111, 110, 116, 101, 110, 116, 45, 84, 121, 112, 101>>,
     text_plain |->
        \* 'text/plain'
        <<116, 101, 120, 116, 47, 112, 108, 97, 105, 110>>,
     X_Content_Type_Options |->
        \* 'X-Content-Type-Options'
        <<88, 45, 67, 111, 110, 116, 101, 110, 116, 45, 84, 121, 112, 101, 45, 79, 112, 116, 105, 111, 110, 115>>,
     nosniff |->
        \* 'nosniff'
        <<110, 111, 115, 110, 105, 102, 102>>,
     X_Frame_Options |->
        \* 'X-Frame-Options'
        <<88, 45, 70, 114, 97, 109, 101, 45, 79, 112, 116, 105, 111, 110, 115>>,
     DENY |->
        \* 'DENY'
        <<68, 69, 78, 89>>,
     X_XSS_Protection |->
        \* 'X-XSS-Protection'
        <<88, 45, 88, 83, 83, 45, 80, 114, 111, 116, 101, 99, 116, 105, 111, 110>>,
     mode_block |->
        \* '1; mode=block'
        <<49, 59, 32, 109, 111, 100, 101, 61, 98, 108, 111, 99, 107>>,
     Referrer_Policy |->
        \* 'Referrer-Policy'
        <<82, 101, 102, 101, 114, 114, 101, 114, 45, 80, 111, 108, 105, 99, 121>>,
     strict_origin |->
        \* 'strict-origin-when-cross-origin'
        <<115, 116, 114, 105, 99, 116, 45, 111, 114, 105, 103, 105, 110, 45, 119, 104, 101, 110, 45, 99, 114, 111, 115, 115, 45, 111, 114, 105, 103, 105, 110>>,
     Content_Security_Policy |->
        \* 'Content-Security-Policy'
        <<67, 111, 110, 116, 101, 110, 116, 45, 83, 101, 99, 117, 114, 105, 116, 121, 45, 80, 111, 108, 105, 99, 121>>,
     default_src_self |->
        \* "default-src 'self'"
        <<100, 101, 102, 97, 117, 108, 116, 45, 115, 114, 99, 32, 39, 115, 101, 108, 102, 39>>,
     Bad_Request |->
        \* 'Bad Request'
        <<66, 97, 100, 32, 82, 101, 113, 117, 101, 115, 116>>,
     Unauthorized |->
        \* 'Unauthorized'
        <<85, 110, 97, 117, 116, 104, 111, 114, 105, 122, 101, 100>>,
     Forbidden |->
        \* 'Forbidden'
        <<70, 111, 114, 98, 105, 100, 100, 101, 110>>,
     Not_Found |->
        \* 'Not Found'
        <<78, 111, 116, 32, 70, 111, 117, 110, 100>>,
     Payload_Too_Large |->
        \* 'Payload Too Large'
        <<80, 97, 121, 108, 111, 97, 100, 32, 84, 111, 111, 32, 76, 97, 114, 103, 101>>,
     Internal_Server_Error |->
        \* 'Internal Server Error'
        <<73, 110, 116, 101, 114, 110, 97, 108, 32, 83, 101, 114, 118, 101, 114, 32, 69, 114, 114, 111, 114>>,
     Error |->
        \* 'Error'
        <<69, 114, 114, 111, 114>>,
     Decompressed_too_large_pre |->
        \* 'Decompressed body too large (>'
        <<68, 101, 99, 111, 109, 112, 114, 101, 115, 115, 101, 100, 32, 98, 111, 100, 121, 32, 116, 111, 111, 32, 108, 97, 114, 103, 101, 32, 40, 62>>,
     bytes_close |->
        \* ' bytes)'
        <<32, 98, 121, 116, 101, 115, 41>>,
     Invalid_gzip_pre |->
        \* 'Invalid gzip-encoded request body: '
        <<73, 110, 118, 97, 108, 105, 100, 32, 103, 122, 105, 112, 45, 101, 110, 99, 111, 100, 101, 100, 32, 114, 101, 113, 117, 101, 115, 116, 32, 98, 111, 100, 121, 58, 32>>]

\* cgi/response.rs: the string literals.
str_response ==
    [Status |->
        \* 'Status'
        <<83, 116, 97, 116, 117, 115>>,
     Content_Length |->
        \* 'Content-Length'
        <<67, 111, 110, 116, 101, 110, 116, 45, 76, 101, 110, 103, 116, 104>>,
     Set_Cookie |->
        \* 'Set-Cookie'
        <<83, 101, 116, 45, 67, 111, 111, 107, 105, 101>>,
     Content_Type |->
        \* 'Content-Type'
        <<67, 111, 110, 116, 101, 110, 116, 45, 84, 121, 112, 101>>,
     text_plain_utf8 |->
        \* 'text/plain; charset=utf-8'
        <<116, 101, 120, 116, 47, 112, 108, 97, 105, 110, 59, 32, 99, 104, 97, 114, 115, 101, 116, 61, 117, 116, 102, 45, 56>>,
     Bad_Request_Invalid_header |->
        \* 'Bad Request: Invalid header'
        <<66, 97, 100, 32, 82, 101, 113, 117, 101, 115, 116, 58, 32, 73, 110, 118, 97, 108, 105, 100, 32, 104, 101, 97, 100, 101, 114>>,
     OK |->
        \* 'OK'
        <<79, 75>>,
     Created |->
        \* 'Created'
        <<67, 114, 101, 97, 116, 101, 100>>,
     No_Content |->
        \* 'No Content'
        <<78, 111, 32, 67, 111, 110, 116, 101, 110, 116>>,
     Bad_Request |->
        \* 'Bad Request'
        <<66, 97, 100, 32, 82, 101, 113, 117, 101, 115, 116>>,
     Unauthorized |->
        \* 'Unauthorized'
        <<85, 110, 97, 117, 116, 104, 111, 114, 105, 122, 101, 100>>,
     Forbidden |->
        \* 'Forbidden'
        <<70, 111, 114, 98, 105, 100, 100, 101, 110>>,
     Not_Found |->
        \* 'Not Found'
        <<78, 111, 116, 32, 70, 111, 117, 110, 100>>,
     Payload_Too_Large |->
        \* 'Payload Too Large'
        <<80, 97, 121, 108, 111, 97, 100, 32, 84, 111, 111, 32, 76, 97, 114, 103, 101>>,
     Internal_Server_Error |->
        \* 'Internal Server Error'
        <<73, 110, 116, 101, 114, 110, 97, 108, 32, 83, 101, 114, 118, 101, 114, 32, 69, 114, 114, 111, 114>>,
     Unknown |->
        \* 'Unknown'
        <<85, 110, 107, 110, 111, 119, 110>>,
     xpires_eq |->
        \* 'xpires='
        <<120, 112, 105, 114, 101, 115, 61>>]

\* error.rs, Error: the prefix each variant is displayed with.
str_error ==
    [RouteNotFound |->
        \* 'Route not found: '
        <<82, 111, 117, 116, 101, 32, 110, 111, 116, 32, 102, 111, 117, 110, 100, 58, 32>>,
     InvalidRequestBody |->
        \* 'Invalid request body: '
        <<73, 110, 118, 97, 108, 105, 100, 32, 114, 101, 113, 117, 101, 115, 116, 32, 98, 111, 100, 121, 58, 32>>,
     ResponseSerializationError |->
        \* 'Failed to serialize response: '
        <<70, 97, 105, 108, 101, 100, 32, 116, 111, 32, 115, 101, 114, 105, 97, 108, 105, 122, 101, 32, 114, 101, 115, 112, 111, 110, 115, 101, 58, 32>>,
     MiddlewareError |->
        \* 'Middleware error: '
        <<77, 105, 100, 100, 108, 101, 119, 97, 114, 101, 32, 101, 114, 114, 111, 114, 58, 32>>,
     InternalServerError |->
        \* 'Internal server error: '
        <<73, 110, 116, 101, 114, 110, 97, 108, 32, 115, 101, 114, 118, 101, 114, 32, 101, 114, 114, 111, 114, 58, 32>>,
     ConfigurationError |->
        \* 'Configuration error: '
        <<67, 111, 110, 102, 105, 103, 117, 114, 97, 116, 105, 111, 110, 32, 101, 114, 114, 111, 114, 58, 32>>,
     ExternalServiceError |->
        \* 'External service error: '
        <<69, 120, 116, 101, 114, 110, 97, 108, 32, 115, 101, 114, 118, 105, 99, 101, 32, 101, 114, 114, 111, 114, 58, 32>>,
     AuthenticationError |->
        \* 'Authentication error: '
        <<65, 117, 116, 104, 101, 110, 116, 105, 99, 97, 116, 105, 111, 110, 32, 101, 114, 114, 111, 114, 58, 32>>,
     AuthorizationError |->
        \* 'Authorization error: '
        <<65, 117, 116, 104, 111, 114, 105, 122, 97, 116, 105, 111, 110, 32, 101, 114, 114, 111, 114, 58, 32>>]

\* handler/pattern.rs, ensure_safe_pattern: the string literal.
str_pattern ==
    [empty_not_allowed |->
        \* 'Empty regex pattern is not allowed'
        <<69, 109, 112, 116, 121, 32, 114, 101, 103, 101, 120, 32, 112, 97, 116, 116, 101, 114, 110, 32, 105, 115, 32, 110, 111, 116, 32, 97, 108, 108, 111, 119, 101, 100>>]

\* cgi/error_logging.rs: the string literals.
str_log ==
    [context |->
        \* 'CGI panic context:'
        <<67, 71, 73, 32, 112, 97, 110, 105, 99, 32, 99, 111, 110, 116, 101, 120, 116, 58>>,
     REQUEST_METHOD |->
        \* '  REQUEST_METHOD='
        <<32, 32, 82, 69, 81, 85, 69, 83, 84, 95, 77, 69, 84, 72, 79, 68, 61>>,
     PATH_INFO |->
        \* '  PATH_INFO='
        <<32, 32, 80, 65, 84, 72, 95, 73, 78, 70, 79, 61>>,
     indent2 |->
        \* '  '
        <<32, 32>>,
     indent4 |->
        \* '    '
        <<32, 32, 32, 32>>,
     eq |->
        \* '='
        <<61>>,
     HTTP_headers |->
        \* '  HTTP headers:'
        <<32, 32, 72, 84, 84, 80, 32, 104, 101, 97, 100, 101, 114, 115, 58>>,
     none |->
        \* '    (none)'
        <<32, 32, 32, 32, 40, 110, 111, 110, 101, 41>>,
     newline |->
        \* '\n'
        <<10>>,
     redacted |->
        \* '***redacted***'
        <<42, 42, 42, 114, 101, 100, 97, 99, 116, 101, 100, 42, 42, 42>>,
     truncated |->
        \* '...[truncated]'
        <<46, 46, 46, 91, 116, 114, 117, 110, 99, 97, 116, 101, 100, 93>>,
     amp |->
        \* '&'
        <<38>>,
     eq_redacted |->
        \* '=***redacted***'
        <<61, 42, 42, 42, 114, 101, 100, 97, 99, 116, 101, 100, 42, 42, 42>>]

\* lambda.rs: string literals.
str_lambda ==
    [Not_Found |->
        \* 'Not Found'
        <<78, 111, 116, 32, 70, 111, 117, 110, 100>>,
     Error_colon |->
        \* 'Error: '
        <<69, 114, 114, 111, 114, 58, 32>>]

\* cloudrun.rs: string literals.
str_cloudrun ==
    [Not_Found |->
        \* 'Not Found'
        <<78, 111, 116, 32, 70, 111, 117, 110, 100>>,
     Error_colon |->
        \* 'Error: '
        <<69, 114, 114, 111, 114, 58, 32>>]

\* tests/integration_tests.rs, TestMiddleware: the string literals.
str_test ==
    [X_Middleware |->
        \* 'X-Middleware'
        <<88, 45, 77, 105, 100, 100, 108, 101, 119, 97, 114, 101>>,
     X_Middleware_Response |->
        \* 'X-Middleware-Response'
        <<88, 45, 77, 105, 100, 100, 108, 101, 119, 97, 114, 101, 45, 82, 101, 115, 112, 111, 110, 115, 101>>,
     Test |->
        \* 'Test'
        <<84, 101, 115, 116>>]

\* The strings the inputs of the model are made of: values of environment
\* variables, header names and values of handler responses, error messages.
str_input ==
    [HTTP_CONTENT_ENCODING |->
        \* 'HTTP_CONTENT_ENCODING'
        <<72, 84, 84, 80, 95, 67, 79, 78, 84, 69, 78, 84, 95, 69, 78, 67, 79, 68, 73, 78, 71>>,
     HTTP_USER_AGENT |->
        \* 'HTTP_USER_AGENT'
        <<72, 84, 84, 80, 95, 85, 83, 69, 82, 95, 65, 71, 69, 78, 84>>,
     nope |->
        \* '/nope'
        <<47, 110, 111, 112, 101>>,
     get |->
        \* 'get'
        <<103, 101, 116>>,
     BREW |->
        \* 'BREW'
        <<66, 82, 69, 87>>,
     n23 |->
        \* '23'
        <<50, 51>>,
     n24 |->
        \* '24'
        <<50, 52>>,
     two_pow_64 |->
        \* '18446744073709551616'
        <<49, 56, 52, 52, 54, 55, 52, 52, 48, 55, 51, 55, 48, 57, 53, 53, 49, 54, 49, 54>>,
     root_pattern |->
        \* '^/$'
        <<94, 47, 36>>,
     X_Evil |->
        \* 'X-Evil'
        <<88, 45, 69, 118, 105, 108>>,
     crlf_value |->
        \* 'a\r\nInjected: 1'
        <<97, 13, 10, 73, 110, 106, 101, 99, 116, 101, 100, 58, 32, 49>>,
     Bad_Name |->
        \* 'Bad Name'
        <<66, 97, 100, 32, 78, 97, 109, 101>>,
     v |->
        \* 'v'
        <<118>>,
     status |->
        \* 'status'
        <<115, 116, 97, 116, 117, 115>>,
     CONTENT_LENGTH_header |->
        \* 'CONTENT-LENGTH'
        <<67, 79, 78, 84, 69, 78, 84, 45, 76, 69, 78, 71, 84, 72>>,
     n99 |->
        \* '99'
        <<57, 57>>,
     hi |->
        \* 'hi'
        <<104, 105>>,
     boom |->
        \* 'boom'
        <<98, 111, 111, 109>>,
     db_password |->
        \* 'db password=hunter2'
        <<100, 98, 32, 112, 97, 115, 115, 119, 111, 114, 100, 61, 104, 117, 110, 116, 101, 114, 50>>,
     io_error |->
        \* 'corrupt gzip stream'
        <<99, 111, 114, 114, 117, 112, 116, 32, 103, 122, 105, 112, 32, 115, 116, 114, 101, 97, 109>>,
     test |->
        \* '/test'
        <<47, 116, 101, 115, 116>>,
     test_any |->
        \* '/test.*'
        <<47, 116, 101, 115, 116, 46, 42>>,
     test_deep |->
        \* '/test/deep'
        <<47, 116, 101, 115, 116, 47, 100, 101, 101, 112>>,
     unclosed |->
        \* '^['
        <<94, 91>>,
     a_or_b |->
        \* '/a|/b'
        <<47, 97, 124, 47, 98>>,
     a_x |->
        \* '/a/x'
        <<47, 97, 47, 120>>,
     empty |->
        \* ''
        <<>>,
     two_cookies |->
        \* 'a=1, b=2'
        <<97, 61, 49, 44, 32, 98, 61, 50>>,
     n26 |->
        \* '26'
        <<50, 54>>,
     HTTP_X_DOT_Y |->
        \* 'HTTP_X.Y'
        <<72, 84, 84, 80, 95, 88, 46, 89>>,
     test_start |->
        \* '^/test'
        <<94, 47, 116, 101, 115, 116>>,
     test_end |->
        \* '/test$'
        <<47, 116, 101, 115, 116, 36>>,
     x_test |->
        \* '/x/test'
        <<47, 120, 47, 116, 101, 115, 116>>,
     cookie_a |->
        \* 'a=1'
        <<97, 61, 49>>,
     cookie_b |->
        \* 'b=2'
        <<98, 61, 50>>,
     attr_sep |->
        \* '; '
        <<59, 32>>,
     cookie_sep |->
        \* ', '
        <<44, 32>>,
     attr_path |->
        \* 'Path=/'
        <<80, 97, 116, 104, 61, 47>>,
     attr_expires |->
        \* 'Expires=Tue, 31 Dec 2024 23:59:59 GMT'
        <<69, 120, 112, 105, 114, 101, 115, 61, 84, 117, 101, 44, 32, 51, 49, 32, 68, 101, 99, 32, 50, 48, 50, 52, 32, 50, 51, 58, 53, 57, 58, 53, 57, 32, 71, 77, 84>>,
     attr_secure |->
        \* 'Secure'
        <<83, 101, 99, 117, 114, 101>>,
     bearer_x |->
        \* 'Bearer x'
        <<66, 101, 97, 114, 101, 114, 32, 120>>,
     bearer_y |->
        \* 'Bearer y'
        <<66, 101, 97, 114, 101, 114, 32, 121>>,
     sid_1 |->
        \* 'sid=1'
        <<115, 105, 100, 61, 49>>,
     sid_2 |->
        \* 'sid=2'
        <<115, 105, 100, 61, 50>>,
     qs_1x |->
        \* 'q=1&token=x'
        <<113, 61, 49, 38, 116, 111, 107, 101, 110, 61, 120>>,
     qs_1y |->
        \* 'q=1&token=y'
        <<113, 61, 49, 38, 116, 111, 107, 101, 110, 61, 121>>,
     qs_2x |->
        \* 'q=2&Token=x'
        <<113, 61, 50, 38, 84, 111, 107, 101, 110, 61, 120>>,
     curl |->
        \* 'curl'
        <<99, 117, 114, 108>>,
     GET |->
        \* 'GET'
        <<71, 69, 84>>,
     SAMEORIGIN |->
        \* 'SAMEORIGIN'
        <<83, 65, 77, 69, 79, 82, 73, 71, 73, 78>>,
     HTTP_CONTENT_TYPE |->
        \* 'HTTP_CONTENT_TYPE'
        <<72, 84, 84, 80, 95, 67, 79, 78, 84, 69, 78, 84, 95, 84, 89, 80, 69>>,
     HTTP_CONTENT_LENGTH |->
        \* 'HTTP_CONTENT_LENGTH'
        <<72, 84, 84, 80, 95, 67, 79, 78, 84, 69, 78, 84, 95, 76, 69, 78, 71, 84, 72>>,
     HTTP_X_TEST |->
        \* 'HTTP_X_TEST'
        <<72, 84, 84, 80, 95, 88, 95, 84, 69, 83, 84>>,
     HTTP_X_Test |->
        \* 'HTTP_X_Test'
        <<72, 84, 84, 80, 95, 88, 95, 84, 101, 115, 116>>,
     application_json |->
        \* 'application/json'
        <<97, 112, 112, 108, 105, 99, 97, 116, 105, 111, 110, 47, 106, 115, 111, 110>>]


\* 'RUNBRIDGE_MAX_BODY_SIZE'
s_RUNBRIDGE_MAX_BODY_SIZE == <<82, 85, 78, 66, 82, 73, 68, 71, 69, 95, 77, 65, 88, 95, 66, 79, 68, 89, 95, 83, 73, 90, 69>>
(***************************************************************************)
(* Option and Result values.                                               *)
(***************************************************************************)
None == [some |-> FALSE]
Some(v) == [some |-> TRUE, val |-> v]
Ok(v) == [ok |-> TRUE, val |-> v]
Err(e) == [ok |-> FALSE, err |-> e]

Min(a, b) == IF a < b THEN a ELSE b

(***************************************************************************)
(* ASCII helpers of the standard library, on bytes.                        *)
(***************************************************************************)
to_ascii_lowercase(s) ==
    [i \in 1..Len(s) |-> IF s[i] \in 65..90 THEN s[i] + 32 ELSE s[i]]

eq_ignore_ascii_case(a, b) == to_ascii_lowercase(a) = to_ascii_lowercase(b)

\* str::is_char_boundary: index i (a byte offset) does not fall inside a
\* multi-byte UTF-8 character.
is_char_boundary(s, i) ==
    \/ i = 0
    \/ i = Len(s)
    \/ i < Len(s) /\ s[i + 1] \notin 128..191

\* Byte-wise lexicographic order.
RECURSIVE LexLessFrom(_, _, _)
LexLessFrom(a, b, i) ==
    IF i > Len(b) THEN FALSE
    ELSE IF i > Len(a) THEN TRUE
    ELSE IF a[i] # b[i] THEN a[i] < b[i]
    ELSE LexLessFrom(a, b, i + 1)

\* usize's Display: decimal digits.
RECURSIVE Dec(_)
Dec(n) == IF n < 10 THEN <<48 + n>> ELSE Dec(n \div 10) \o <<48 + (n % 10)>>

(***************************************************************************)
(* error.rs: the error kinds, their Display text and their status code.    *)
(***************************************************************************)
ErrorKinds ==
    {"RouteNotFound", "InvalidRequestBody", "ResponseSerializationError",
     "MiddlewareError", "InternalServerError", "ConfigurationError",
     "ExternalServiceError", "AuthenticationError", "AuthorizationError",
     "PayloadTooLarge"}

Error(kind, msg) == [kind |-> kind, msg |-> msg]

\* The PayloadTooLarge variant is used throughout src/ but its declaration
\* (and so its Display prefix) is not part of the error.rs at hand.
\* 'Payload too large: '
s_d_PayloadTooLarge == <<80, 97, 121, 108, 111, 97, 100, 32, 116, 111, 111, 32, 108, 97, 114, 103, 101, 58, 32>>

Display(e) ==
    LET DisplayPrefix(kind) ==
            IF kind = "PayloadTooLarge" THEN s_d_PayloadTooLarge ELSE str_error[kind]
    IN
              DisplayPrefix(e.kind) \o e.msg

\* Error::status_code.  The 413 of PayloadTooLarge is the one asserted by
\* test_from_error_payload_too_large (common/http.rs).
status_code(e) ==
    CASE e.kind = "RouteNotFound" -> 404
      [] e.kind = "InvalidRequestBody" -> 400
      [] e.kind = "ResponseSerializationError" -> 500
      [] e.kind = "MiddlewareError" -> 500
      [] e.kind = "InternalServerError" -> 500
      [] e.kind = "ConfigurationError" -> 500
      [] e.kind = "ExternalServiceError" -> 502
      [] e.kind = "AuthenticationError" -> 401
      [] e.kind = "AuthorizationError" -> 403
      [] e.kind = "PayloadTooLarge" -> 413

(***************************************************************************)
(* common/http.rs: Method.                                                 *)
(***************************************************************************)
Methods == {"GET", "POST", "PUT", "DELETE", "PATCH", "HEAD", "OPTIONS"}

MethodName(m) ==
    CASE m = "GET" -> str_method.GET
      [] m = "POST" -> str_method.POST
      [] m = "PUT" -> str_method.PUT
      [] m = "DELETE" -> str_method.DELETE
      [] m = "PATCH" -> str_method.PATCH
      [] m = "HEAD" -> str_method.HEAD
      [] m = "OPTIONS" -> str_method.OPTIONS

\* Method::from_str: upper-cases, then compares with the seven names.
Method_from_str(s) ==
    LET to_ascii_uppercase(t) ==
            [i \in 1..Len(t) |-> IF t[i] \in 97..122 THEN t[i] - 32 ELSE t[i]]
    IN
    LET u == to_ascii_uppercase(s) IN
    IF \E m \in Methods : MethodName(m) = u
    THEN Some(CHOOSE m \in Methods : MethodName(m) = u)
    ELSE None

(***************************************************************************)
(* common/utils.rs and cgi/validation.rs: the header checks.               *)
(***************************************************************************)
\* A value is a valid UTF-8 string, so "every char has code >= 0x20 and is
\* not 0x7F" is "no byte below 0x20 and no byte 0x7F".
is_header_value_valid(value) ==
    \/ Len(value) = 0
    \/ \A i \in 1..Len(value) :
          value[i] >= 32 /\ value[i] # 127 /\ value[i] # 13 /\ value[i] # 10

is_valid_header_name(name) ==
    LET is_ascii_alphanumeric(c) ==
            (c >= 48 /\ c <= 57) \/ (c >= 65 /\ c <= 90) \/ (c >= 97 /\ c <= 122)
    IN
    /\ Len(name) # 0
    /\ \A i \in 1..Len(name) : is_ascii_alphanumeric(name[i]) \/ name[i] = 45

\* A whitelist one code too wide: DEL passes.
is_valid_header_value_allowing_del(value) ==
    \A i \in 1..Len(value) :
        value[i] = 9 \/ value[i] = 32 \/ value[i] \in 33..127

is_valid_header_value(value) ==
    \A i \in 1..Len(value) :
        value[i] = 9 \/ value[i] = 32 \/ value[i] \in 33..126

(***************************************************************************)
(* common/http.rs: Response.  headers is a HashMap: a function from the    *)
(* keys present to their values.                                           *)
(***************************************************************************)
EmptyMap == <<>>

Insert(map, k, v) ==
    [x \in (DOMAIN map) \cup {k} |-> IF x = k THEN v ELSE map[x]]

Remove_everything(map, k) == EmptyMap

Remove(map, k) == [x \in (DOMAIN map) \ {k} |-> map[x]]

OrInsert_overwriting(map, k, v) == Insert(map, k, v)

OrInsert(map, k, v) == IF k \in DOMAIN map THEN map ELSE Insert(map, k, v)

inject_default_security_headers(map) ==
    OrInsert(
     OrInsert(
      OrInsert(
       OrInsert(
        OrInsert(map, str_http.X_Content_Type_Options, str_http.nosniff),
        str_http.X_Frame_Options, str_http.DENY),
       str_http.X_XSS_Protection, str_http.mode_block),
      str_http.Referrer_Policy, str_http.strict_origin),
     str_http.Content_Security_Policy, str_http.default_src_self)

Response_new(status) ==
    [status |-> status,
     headers |-> inject_default_security_headers(EmptyMap),
     body |-> None]

with_header(r, key, value) ==
    IF ~is_header_value_valid(value) THEN r
    ELSE [r EXCEPT !.headers = Insert(@, key, value)]

with_body(r, body) == [r EXCEPT !.body = Some(body)]

Response_not_found == Response_new(404)

Response_internal_server_error == Response_new(500)

from_error_message(status) ==
    CASE status = 400 -> str_http.Bad_Request
      [] status = 401 -> str_http.Unauthorized
      [] status = 403 -> str_http.Forbidden
      [] status = 404 -> str_http.Not_Found
      [] status = 413 -> str_http.Payload_Too_Large
      [] status \in {500, 502} -> str_http.Internal_Server_Error
      [] OTHER -> str_http.Error

Response_from_error(e) ==
    with_body(
        with_header(Response_new(status_code(e)), str_http.Content_Type, str_http.text_plain),
        from_error_message(status_code(e)))

(***************************************************************************)
(* cgi/response.rs: the CGI response framer.                               *)
(***************************************************************************)
\* str::trim on a string of validated (ASCII) bytes.
\* str::trim: leading and trailing white space removed.
trim(s) ==
    LET kept == {i \in 1..Len(s) : s[i] \notin {9, 10, 11, 12, 13, 32}} IN
    IF kept = {} THEN <<>>
    ELSE SubSeq(s, CHOOSE i \in kept : \A j \in kept : i <= j,
                   CHOOSE i \in kept : \A j \in kept : j <= i)

\* while let Some(' ') = chars.peek() { chars.next(); }
RECURSIVE SkipSpaces(_, _)
SkipSpaces(value, p) ==
    IF p <= Len(value) /\ value[p] = 32 THEN SkipSpaces(value, p + 1) ELSE p

\* The look-ahead after a comma: is there a '=' before the next ';' or ','?
RECURSIVE SeenEqBeforeSemicolon(_, _)
SeenEqBeforeSemicolon(value, p) ==
    IF p > Len(value) THEN FALSE
    ELSE IF value[p] \in {59, 44} THEN FALSE
    ELSE IF value[p] = 61 THEN TRUE
    ELSE SeenEqBeforeSemicolon(value, p + 1)

PushPart(result, buf) ==
    IF trim(buf) # <<>> THEN Append(result, trim(buf)) ELSE result

RECURSIVE SplitLoop(_, _, _, _, _)
SplitLoop(value, p, buf, in_expires, result) ==
    LET \* The seven characters from position p on are "xpires=" in any letter case.
        MatchesXpires(s, at) ==
            /\ Len(s) >= at + 6
            /\ to_ascii_lowercase(SubSeq(s, at, at + 6)) = str_response.xpires_eq
    IN
    IF p > Len(value) THEN PushPart(result, buf)
    ELSE LET ch == value[p] IN
         CASE ch = 59 ->
                SplitLoop(value, p + 1, Append(buf, ch), FALSE, result)
           [] ch = 44 ->
                IF in_expires
                THEN SplitLoop(value, p + 1, Append(buf, ch), in_expires, result)
                ELSE LET q == SkipSpaces(value, p + 1) IN
                     IF SeenEqBeforeSemicolon(value, q)
                     THEN SplitLoop(value, q, <<>>, in_expires, PushPart(result, buf))
                     ELSE SplitLoop(value, q, Append(buf, 44), in_expires, result)
           [] ch \in {69, 101} ->
                SplitLoop(value, p + 1, Append(buf, ch),
                          in_expires \/ MatchesXpires(value, p + 1), result)
           [] OTHER ->
                \* the characters up to the next ';', ',', 'E' or 'e' are
                \* pushed one after the other
                LET marks == {q \in (p + 1)..Len(value) :
                                 value[q] \in {59, 44, 69, 101}}
                    stop == IF marks = {} THEN Len(value) + 1
                            ELSE CHOOSE q \in marks : \A x \in marks : q <= x
                IN SplitLoop(value, stop, buf \o SubSeq(value, p, stop - 1),
                             in_expires, result)

split_set_cookie_header(value) == SplitLoop(value, 1, <<>>, FALSE, <<>>)

reason_phrase(status) ==
    CASE status = 200 -> str_response.OK
      [] status = 201 -> str_response.Created
      [] status = 204 -> str_response.No_Content
      [] status = 400 -> str_response.Bad_Request
      [] status = 401 -> str_response.Unauthorized
      [] status = 403 -> str_response.Forbidden
      [] status = 404 -> str_response.Not_Found
      [] status = 413 -> str_response.Payload_Too_Large
      [] status = 500 -> str_response.Internal_Server_Error
      [] OTHER -> str_response.Unknown

\* One write_all call of the framer: t is the kind of line, n its number
\* (status code or body length), a and b its strings.
Line(t, n, a, b) == [t |-> t, n |-> n, a |-> a, b |-> b]

StatusLine(status) == Line("status", status, reason_phrase(status), <<>>)
HeaderLine(name, value) == Line("header", 0, name, value)
SetCookieLine(cookie) == Line("set-cookie", 0, str_response.Set_Cookie, cookie)
ContentLengthLine(n) == Line("content-length", n, str_response.Content_Length, <<>>)
BlankLine == Line("blank", 0, <<>>, <<>>)
BodyBytes(body) == Line("body", Len(body), <<>>, body)

\* Reserved names recognised in one spelling only.
IsReservedHeader_exact_case(name) ==
    name = str_response.Status \/ name = str_response.Content_Length

IsReservedHeader(name) ==
    eq_ignore_ascii_case(name, str_response.Status) \/ eq_ignore_ascii_case(name, str_response.Content_Length)

InvalidHeaderResponse ==
    with_body(
        with_header(Response_new(400), str_response.Content_Type, str_response.text_plain_utf8),
        str_response.Bad_Request_Invalid_header)

\* Lines 24-33 with the accumulated headers kept: the sanitized_headers.clear()
\* is left out.
reject_keeping_headers(sanitized) ==
    [response |-> InvalidHeaderResponse, sanitized |-> sanitized]

\* Lines 24-33: an invalid header replaces the response by the fixed 400 and
\* clears the headers accumulated so far.
reject_invalid_header(sanitized) ==
    [response |-> InvalidHeaderResponse, sanitized |-> <<>>]

\* The validation loop over response.headers, visited in the order `order`;
\* the result is the response to write and its sanitized_headers.
RECURSIVE SanitizeHeaders(_, _, _, _)
SanitizeHeaders(response, order, i, sanitized) ==
    IF i > Len(order) THEN [response |-> response, sanitized |-> sanitized]
    ELSE LET name == order[i]
             value == response.headers[name]
         IN IF IsReservedHeader(name)
            THEN SanitizeHeaders(response, order, i + 1, sanitized)
            ELSE IF ~is_valid_header_name(name) \/ ~is_valid_header_value(value)
            THEN reject_invalid_header(sanitized)
            ELSE SanitizeHeaders(response, order, i + 1,
                                 Append(sanitized, <<name, value>>))

NormalHeaders(sanitized) ==
    LET IsNormal(h) == ~eq_ignore_ascii_case(h[1], str_response.Set_Cookie)
    IN SelectSeq(sanitized, IsNormal)

RECURSIVE SetCookieValues(_)
SetCookieValues(sanitized) ==
    IF sanitized = <<>> THEN <<>>
    ELSE LET h == Head(sanitized)
             parts == split_set_cookie_header(h[2])
         IN IF eq_ignore_ascii_case(h[1], str_response.Set_Cookie)
            THEN (IF parts = <<>> THEN <<h[2]>> ELSE parts)
                     \o SetCookieValues(Tail(sanitized))
            ELSE SetCookieValues(Tail(sanitized))

\* A framer that ends the header block only when a body follows.
write_response_to_without_separator(response, order) ==
    LET s == SanitizeHeaders(response, order, 1, <<>>)
        normal == NormalHeaders(s.sanitized)
    IN <<StatusLine(s.response.status)>>
       \o [i \in 1..Len(normal) |-> HeaderLine(normal[i][1], normal[i][2])]
       \o (IF s.response.body.some
           THEN <<ContentLengthLine(Len(s.response.body.val)), BlankLine,
                  BodyBytes(s.response.body.val)>>
           ELSE <<>>)

\* write_response_to: the sequence of writes for `response` when its header
\* map is visited in the order `order`.
write_response_to(response, order) ==
    LET s == SanitizeHeaders(response, order, 1, <<>>)
        res == s.response
        normal == NormalHeaders(s.sanitized)
        cookies == SetCookieValues(s.sanitized)
    IN <<StatusLine(res.status)>>
       \o [i \in 1..Len(normal) |-> HeaderLine(normal[i][1], normal[i][2])]
       \o [i \in 1..Len(cookies) |-> SetCookieLine(cookies[i])]
       \o (IF res.body.some THEN <<ContentLengthLine(Len(res.body.val))>> ELSE <<>>)
       \o <<BlankLine>>
       \o (IF res.body.some THEN <<BodyBytes(res.body.val)>> ELSE <<>>)

\* The elements of a finite set, in some fixed order.
RECURSIVE Enumerate(_)
Enumerate(keys) ==
    IF keys = {} THEN <<>>
    ELSE LET k == CHOOSE x \in keys : TRUE
         IN <<k>> \o Enumerate(keys \ {k})

\* The orders in which the entries of a HashMap (or of env::vars()) may be
\* visited.  Any permutation is possible; the model explores one order and
\* its reverse.
IterationOrders(map) ==
    LET order == Enumerate(DOMAIN map) IN
    {order, [i \in 1..Len(order) |-> order[Len(order) + 1 - i]]}

(***************************************************************************)
(* The process environment (std::env) is a function from the names of the  *)
(* variables that are set to their values.                                 *)
(***************************************************************************)
env_var(e, key) == IF key \in DOMAIN e THEN Ok(e[key]) ELSE Err("NotPresent")

AllDigits(s) ==
    LET IsDigit(c) == c \in 48..57
    IN
                s # <<>> /\ \A i \in 1..Len(s) : IsDigit(s[i])

RECURSIVE StripLeadingZeros(_)
StripLeadingZeros(s) ==
    IF Len(s) > 1 /\ Head(s) = 48 THEN StripLeadingZeros(Tail(s)) ELSE s

RECURSIVE DecValue(_)
DecValue(s) ==
    IF s = <<>> THEN 0
    ELSE DecValue(SubSeq(s, 1, Len(s) - 1)) * 10 + (s[Len(s)] - 48)

\* usize::MAX of a 64-bit build, in decimal: '18446744073709551615'
s_usize_MAX == <<49, 56, 52, 52, 54, 55, 52, 52, 48, 55, 51, 55, 48, 57, 53, 53, 49, 54, 49, 53>>

\* A string of digits denotes a number above usize::MAX.
ExceedsUsize(digits) ==
    LET LexLess(a, b) == LexLessFrom(a, b, 1)
    IN
    LET d == StripLeadingZeros(digits) IN
    \/ Len(d) > Len(s_usize_MAX)
    \/ Len(d) = Len(s_usize_MAX) /\ LexLess(s_usize_MAX, d)

\* str::parse::<usize>: an optional '+', then one or more digits, and a
\* value that fits in usize; anything else is an error.
parse_usize(s) ==
    LET digits == IF s # <<>> /\ Head(s) = 43 THEN Tail(s) ELSE s IN
    IF ~AllDigits(digits) THEN Err("InvalidDigit")
    ELSE IF ExceedsUsize(digits) THEN Err("PosOverflow")
    ELSE Ok(DecValue(StripLeadingZeros(digits)))

(***************************************************************************)
(* common/utils.rs: the configured maximum body size.                      *)
(***************************************************************************)
DEFAULT_MAX_SIZE == 5 * 1024 * 1024

get_max_body_size(e) ==
    LET v == env_var(e, s_RUNBRIDGE_MAX_BODY_SIZE) IN
    IF v.ok /\ parse_usize(v.val).ok THEN parse_usize(v.val).val
    ELSE DEFAULT_MAX_SIZE

(***************************************************************************)
(* cgi/request.rs: headers and body of the request.                        *)
(***************************************************************************)
\* "X_AUTH_TOKEN" -> "X-Auth-Token": split on '_', upper-case the first
\* character of each part and lower-case the rest, join with '-'.
TitleCaseParts(s) ==
    [i \in 1..Len(s) |->
        IF s[i] = 95 THEN 45
        ELSE IF i = 1 \/ s[i - 1] = 95
             THEN (IF s[i] \in 97..122 THEN s[i] - 32 ELSE s[i])
             ELSE (IF s[i] \in 65..90 THEN s[i] + 32 ELSE s[i])]

\* The header name an environment variable stands for, if any.
header_name_of(key) ==
    LET starts_with(s, p) == Len(s) >= Len(p) /\ SubSeq(s, 1, Len(p)) = p
    IN
    IF starts_with(key, str_request.HTTP_)
    THEN Some(TitleCaseParts(SubSeq(key, 6, Len(key))))
    ELSE IF key = str_request.CONTENT_TYPE \/ key = str_request.CONTENT_LENGTH
    THEN Some(TitleCaseParts(key))
    ELSE None

\* get_cgi_headers, with env::vars() yielding the variables in `order`.
RECURSIVE CgiHeadersLoop(_, _, _, _)
CgiHeadersLoop(e, order, i, headers) ==
    IF i > Len(order) THEN headers
    ELSE LET key == order[i]
             value == e[key]
             name == header_name_of(key)
         IN IF ~name.some
            THEN CgiHeadersLoop(e, order, i + 1, headers)
            ELSE IF ~is_valid_header_name(name.val)
            THEN CgiHeadersLoop(e, order, i + 1, headers)
            ELSE IF ~is_valid_header_value(value)
            THEN CgiHeadersLoop(e, order, i + 1, headers)
            ELSE CgiHeadersLoop(e, order, i + 1, Insert(headers, name.val, value))

get_cgi_headers(e, order) == CgiHeadersLoop(e, order, 1, EmptyMap)

\* read_request_body.  `input` is what standard input holds.  The result
\* is the function's return value and the number of bytes it consumed.
read_request_body(e, input) ==
    LET cl == env_var(e, str_request.CONTENT_LENGTH)
        n == parse_usize(cl.val)
    IN IF cl.ok /\ n.ok /\ n.val > 0
       THEN IF n.val > get_max_body_size(e)
            THEN [res |-> Err(Error("PayloadTooLarge", <<>>)), consumed |-> 0]
            ELSE IF Len(input) < n.val
            THEN [res |-> Err(Error("InvalidRequestBody", <<>>)),
                  consumed |-> Len(input)]
            ELSE [res |-> Ok(Some(SubSeq(input, 1, n.val))), consumed |-> n.val]
       ELSE [res |-> Ok(None), consumed |-> 0]

(***************************************************************************)
(* cgi/error_logging.rs: the panic-context record.                         *)
(***************************************************************************)
\* authorization, cookie, token, secret, password, pass, api-key, api_key, apikey, x-api-key, x_api_key, jwt, auth, session, csrf, signature, private, key, credential, access_token, refresh_token, bearer, basic
SensitivePatterns ==
    {<<97, 117, 116, 104, 111, 114, 105, 122, 97, 116, 105, 111, 110>>,
     <<99, 111, 111, 107, 105, 101>>,
     <<116, 111, 107, 101, 110>>,
     <<115, 101, 99, 114, 101, 116>>,
     <<112, 97, 115, 115, 119, 111, 114, 100>>,
     <<112, 97, 115, 115>>,
     <<97, 112, 105, 45, 107, 101, 121>>,
     <<97, 112, 105, 95, 107, 101, 121>>,
     <<97, 112, 105, 107, 101, 121>>,
     <<120, 45, 97, 112, 105, 45, 107, 101, 121>>,
     <<120, 95, 97, 112, 105, 95, 107, 101, 121>>,
     <<106, 119, 116>>,
     <<97, 117, 116, 104>>,
     <<115, 101, 115, 115, 105, 111, 110>>,
     <<99, 115, 114, 102>>,
     <<115, 105, 103, 110, 97, 116, 117, 114, 101>>,
     <<112, 114, 105, 118, 97, 116, 101>>,
     <<107, 101, 121>>,
     <<99, 114, 101, 100, 101, 110, 116, 105, 97, 108>>,
     <<97, 99, 99, 101, 115, 115, 95, 116, 111, 107, 101, 110>>,
     <<114, 101, 102, 114, 101, 115, 104, 95, 116, 111, 107, 101, 110>>,
     <<98, 101, 97, 114, 101, 114>>,
     <<98, 97, 115, 105, 99>>}

\* QUERY_STRING, CONTENT_TYPE, CONTENT_LENGTH, SERVER_PROTOCOL, SERVER_NAME, SERVER_PORT, REMOTE_ADDR, REMOTE_PORT
basic_vars ==
    <<<<81, 85, 69, 82, 89, 95, 83, 84, 82, 73, 78, 71>>,
      <<67, 79, 78, 84, 69, 78, 84, 95, 84, 89, 80, 69>>,
      <<67, 79, 78, 84, 69, 78, 84, 95, 76, 69, 78, 71, 84, 72>>,
      <<83, 69, 82, 86, 69, 82, 95, 80, 82, 79, 84, 79, 67, 79, 76>>,
      <<83, 69, 82, 86, 69, 82, 95, 78, 65, 77, 69>>,
      <<83, 69, 82, 86, 69, 82, 95, 80, 79, 82, 84>>,
      <<82, 69, 77, 79, 84, 69, 95, 65, 68, 68, 82>>,
      <<82, 69, 77, 79, 84, 69, 95, 80, 79, 82, 84>>>>

\* HTTP_HOST, HTTP_USER_AGENT, HTTP_ACCEPT, HTTP_ACCEPT_ENCODING, HTTP_X_FORWARDED_FOR, HTTP_X_FORWARDED_PROTO, HTTP_X_REQUEST_ID, HTTP_X_AMZN_TRACE_ID, HTTP_AUTHORIZATION, HTTP_COOKIE
http_headers ==
    <<<<72, 84, 84, 80, 95, 72, 79, 83, 84>>,
      <<72, 84, 84, 80, 95, 85, 83, 69, 82, 95, 65, 71, 69, 78, 84>>,
      <<72, 84, 84, 80, 95, 65, 67, 67, 69, 80, 84>>,
      <<72, 84, 84, 80, 95, 65, 67, 67, 69, 80, 84, 95, 69, 78, 67, 79, 68, 73, 78, 71>>,
      <<72, 84, 84, 80, 95, 88, 95, 70, 79, 82, 87, 65, 82, 68, 69, 68, 95, 70, 79, 82>>,
      <<72, 84, 84, 80, 95, 88, 95, 70, 79, 82, 87, 65, 82, 68, 69, 68, 95, 80, 82, 79, 84, 79>>,
      <<72, 84, 84, 80, 95, 88, 95, 82, 69, 81, 85, 69, 83, 84, 95, 73, 68>>,
      <<72, 84, 84, 80, 95, 88, 95, 65, 77, 90, 78, 95, 84, 82, 65, 67, 69, 95, 73, 68>>,
      <<72, 84, 84, 80, 95, 65, 85, 84, 72, 79, 82, 73, 90, 65, 84, 73, 79, 78>>,
      <<72, 84, 84, 80, 95, 67, 79, 79, 75, 73, 69>>>>

\* 'query_string'
s_query_string == <<113, 117, 101, 114, 121, 95, 115, 116, 114, 105, 110, 103>>

\* str::contains
Contains(s, p) ==
    \E i \in 0..(Len(s) - Len(p)) : SubSeq(s, i + 1, i + Len(p)) = p

\* A test for the key being one of the patterns, not for containing one.
is_sensitive_key_like_whole_key(lower_key) ==
    lower_key \in SensitivePatterns

is_sensitive_key_like(lower_key) ==
    \E p \in SensitivePatterns : Contains(lower_key, p)

TRUNCATE_AT == 200

\* redact_value_for_log evaluates &value[..200] for a long value of an
\* ordinary key; the slice panics when byte offset 200 is inside a character.
redact_value_panics(key, value) ==
    LET key_l == to_ascii_lowercase(key) IN
    /\ key_l # s_query_string
    /\ ~is_sensitive_key_like(key_l)
    /\ Len(value) > TRUNCATE_AT
    /\ ~is_char_boundary(value, TRUNCATE_AT)

\* gather_cgi_panic_context calls redact_value_for_log for each of the
\* listed variables that is set; it panics if one of these calls does.
gather_cgi_panic_context_panics(e) ==
    \/ \E i \in 1..Len(basic_vars) :
          basic_vars[i] \in DOMAIN e /\ redact_value_panics(basic_vars[i], e[basic_vars[i]])
    \/ \E i \in 1..Len(http_headers) :
          http_headers[i] \in DOMAIN e /\ redact_value_panics(http_headers[i], e[http_headers[i]])

\* redact_query_string.  38 is '&', 61 is '='.
redact_query_string(qs) ==
    \* str::split(c): the pieces of s between the occurrences of c.
    LET RECURSIVE split(_, _)
        split(s, c) ==
            LET at == {i \in 1..Len(s) : s[i] = c} IN
            IF at = {} THEN <<s>>
            ELSE LET i == CHOOSE x \in at : \A y \in at : x <= y
                 IN <<SubSeq(s, 1, i - 1)>> \o split(SubSeq(s, i + 1, Len(s)), c)
    IN
    LET parts == SelectSeq(split(qs, 38), LAMBDA part : part # <<>>)
        out(part) ==
            LET kv == split(part, 61)
                k == kv[1]
                v == SubSeq(part, Len(k) + 2, Len(part))
            IN IF is_sensitive_key_like(to_ascii_lowercase(k))
               THEN k \o str_log.eq_redacted
               ELSE k \o str_log.eq \o v
        RECURSIVE join(_)
        join(i) ==
            IF i > Len(parts) THEN <<>>
            ELSE (IF i > 1 THEN str_log.amp ELSE <<>>)
                     \o out(parts[i]) \o join(i + 1)
    IN IF qs = <<>> THEN qs ELSE join(1)

\* redact_value_for_log: the String returned, or the panic of the slice.
redact_value_for_log(key, value) ==
    LET key_l == to_ascii_lowercase(key) IN
    IF key_l = s_query_string
    THEN [panic |-> FALSE, val |-> redact_query_string(value)]
    ELSE IF is_sensitive_key_like(key_l)
    THEN [panic |-> FALSE, val |-> str_log.redacted]
    ELSE IF Len(value) > TRUNCATE_AT
    THEN IF is_char_boundary(value, TRUNCATE_AT)
         THEN [panic |-> FALSE,
               val |-> SubSeq(value, 1, TRUNCATE_AT) \o str_log.truncated]
         ELSE [panic |-> TRUE]
    ELSE [panic |-> FALSE, val |-> value]

\* gather_cgi_panic_context in the environment e: the text returned, or
\* the panic of one of its calls of redact_value_for_log.
gather_cgi_panic_context(e, m, p) ==
    LET RECURSIVE lines(_, _, _)
        lines(keys, i, indent) ==
            IF i > Len(keys) THEN <<>>
            ELSE IF keys[i] \notin DOMAIN e THEN lines(keys, i + 1, indent)
            ELSE <<indent \o keys[i] \o str_log.eq
                      \o redact_value_for_log(keys[i], e[keys[i]]).val>>
                     \o lines(keys, i + 1, indent)
        headers_found == lines(http_headers, 1, str_log.indent4)
        all == <<str_log.context, str_log.REQUEST_METHOD \o m,
                 str_log.PATH_INFO \o p>>
                   \o lines(basic_vars, 1, str_log.indent2)
                   \o <<str_log.HTTP_headers>>
                   \o (IF headers_found = <<>> THEN <<str_log.none>>
                       ELSE headers_found)
        RECURSIVE join(_)
        join(i) ==
            IF i > Len(all) THEN <<>>
            ELSE (IF i > 1 THEN str_log.newline ELSE <<>>) \o all[i] \o join(i + 1)
    IN IF gather_cgi_panic_context_panics(e) THEN [panic |-> TRUE]
       ELSE [panic |-> FALSE, val |-> join(1)]

(***************************************************************************)
(* Request bodies.  The gzip decoder (flate2::read::GzDecoder) is a        *)
(* library; the model knows it by what it yields for the bodies of the     *)
(* model: each gz_ definition is the actual gzip encoding of its payload.  *)
(***************************************************************************)
\* gzip of 26 times 'a'
gz_a26 == <<31, 139, 8, 0, 0, 0, 0, 0, 2, 3, 75, 76, 196, 5, 0, 184, 58, 181, 232, 26, 0, 0, 0>>

\* gz_a26 with one bit of its CRC-32 flipped
gz_a26_badcrc == <<31, 139, 8, 0, 0, 0, 0, 0, 2, 3, 75, 76, 196, 5, 0, 185, 58, 181, 232, 26, 0, 0, 0>>

payload_a26 == [i \in 1..26 |-> 97]


\* What a GzDecoder over `body` does when read to the end: the bytes it
\* yields, and whether it then reports an error instead of end of stream.
\* A checksum mismatch is detected after the whole payload was yielded; a
\* body that is no gzip stream yields nothing and an error.
GzDecoderRun(body) ==
    IF body = gz_a26 THEN [out |-> payload_a26, err |-> FALSE]
    ELSE IF body = gz_a26_badcrc THEN [out |-> payload_a26, err |-> TRUE]
    ELSE [out |-> <<>>, err |-> TRUE]

CHUNK_SIZE == 8192

\* The sizes Read::read may return for a buffer of CHUNK_SIZE bytes when
\* `remaining` bytes are still to come: all that fits, or a short read.
MaxShortRead == 1

ReadSizes(remaining) ==
    {Min(CHUNK_SIZE, remaining)}
        \cup {k \in 1..MaxShortRead : k < remaining /\ k <= CHUNK_SIZE}

(***************************************************************************)
(* handler/pattern.rs, handler/core.rs and lib.rs: routes.                 *)
(*                                                                         *)
(* The regex engine is a library.  The patterns of the model are           *)
(* alternations ('|') of branches; a branch is an optional '^', then       *)
(* literal characters, '.' and '.*', then an optional '$'.  A pattern with *)
(* a '[' that no ']' closes does not compile.                              *)
(***************************************************************************)
\* str::trim_start_matches('^')
RECURSIVE trim_start_matches(_, _)
trim_start_matches(s, c) ==
    IF s # <<>> /\ s[1] = c THEN trim_start_matches(SubSeq(s, 2, Len(s)), c) ELSE s

\* str::trim_end_matches('$')
RECURSIVE trim_end_matches(_, _)
trim_end_matches(s, c) ==
    IF s # <<>> /\ s[Len(s)] = c
    THEN trim_end_matches(SubSeq(s, 1, Len(s) - 1), c) ELSE s

\* handler/pattern.rs, ensure_safe_pattern.  94 is '^', 36 is '$'.
ensure_safe_pattern(pattern) ==
    IF pattern = <<>>
    THEN Err(Error("InvalidRequestBody", str_pattern.empty_not_allowed))
    ELSE LET has_start_anchor == pattern[1] = 94
             has_end_anchor == pattern[Len(pattern)] = 36
         IN IF ~has_start_anchor \/ ~has_end_anchor
            THEN Ok(<<94>> \o trim_end_matches(trim_start_matches(pattern, 94), 36)
                         \o <<36>>)
            ELSE Ok(pattern)

\* RouteHandler::try_new.  handler_fn names the function the route runs.
try_new(m, path_pattern, handler_fn) ==
    LET safe_pattern == ensure_safe_pattern(path_pattern) IN
    IF ~safe_pattern.ok THEN safe_pattern
    ELSE Ok([method |-> m, path_pattern |-> safe_pattern.val,
             compiled_regex |-> "uninit", handler_fn |-> handler_fn])

\* Regex::new, as far as the model goes: does the pattern compile?
Regex_new(pattern) ==
    IF \E i \in 1..Len(pattern) :
          pattern[i] = 91 /\ \A j \in (i + 1)..Len(pattern) : pattern[j] # 93
    THEN "invalid" ELSE "compiled"

\* The branches of an alternation: the pattern split at each '|' (124).
RECURSIVE Branches(_)
Branches(pattern) ==
    IF \E i \in 1..Len(pattern) : pattern[i] = 124
    THEN LET i == CHOOSE x \in 1..Len(pattern) :
                     pattern[x] = 124 /\ \A y \in 1..(x - 1) : pattern[y] # 124
         IN <<SubSeq(pattern, 1, i - 1)>>
                \o Branches(SubSeq(pattern, i + 1, Len(pattern)))
    ELSE <<pattern>>

\* The branch body b from position i on matches the path from position j
\* on; with to_end, only up to the end of the path.  46 is '.', 42 is '*';
\* '.' matches any character but a line feed.
RECURSIVE MatchFrom(_, _, _, _, _)
MatchFrom(b, i, path, j, to_end) ==
    IF i > Len(b) THEN ~to_end \/ j > Len(path)
    ELSE IF b[i] = 46 /\ i < Len(b) /\ b[i + 1] = 42
    THEN \E k \in j..(Len(path) + 1) :
            /\ \A x \in j..(k - 1) : path[x] # 10
            /\ MatchFrom(b, i + 2, path, k, to_end)
    ELSE /\ j <= Len(path)
         /\ IF b[i] = 46 THEN path[j] # 10 ELSE path[j] = b[i]
         /\ MatchFrom(b, i + 1, path, j + 1, to_end)

\* Regex::is_match: some branch matches somewhere in the path, a '^' tying
\* it to the start and a '$' to the end.
regex_is_match(pattern, path) ==
    \E n \in 1..Len(Branches(pattern)) :
        LET branch == Branches(pattern)[n]
            a == branch # <<>> /\ branch[1] = 94
            z == Len(branch) > (IF a THEN 1 ELSE 0) /\ branch[Len(branch)] = 36
            body == SubSeq(branch, (IF a THEN 2 ELSE 1),
                           (IF z THEN Len(branch) - 1 ELSE Len(branch)))
        IN \E j \in (IF a THEN {1} ELSE 1..(Len(path) + 1)) :
              MatchFrom(body, 1, path, j, z)

\* compiled_regex.get_or_init(|| Regex::new(&self.path_pattern))
get_or_init(route) ==
    IF route.compiled_regex = "uninit" THEN Regex_new(route.path_pattern)
    ELSE route.compiled_regex

\* A matches that takes a pattern that does not compile for one that
\* matches everything.
matches_failing_open(route, path, m) ==
    IF m # route.method THEN FALSE
    ELSE IF get_or_init(route) = "invalid" THEN TRUE
    ELSE regex_is_match(route.path_pattern, path)

\* Handler::matches of RouteHandler: the value returned.
matches(route, path, m) ==
    IF m # route.method THEN FALSE
    ELSE IF get_or_init(route) = "invalid" THEN FALSE
    ELSE regex_is_match(route.path_pattern, path)

\* Handler::matches of RouteHandler: the route afterwards, its OnceLock set
\* unless the method differed.
after_matches(route, m) ==
    IF m # route.method THEN route
    ELSE [route EXCEPT !.compiled_regex = get_or_init(route)]

\* A find_handler that takes the first entry whatever the request is.
find_handler_first_entry(handlers, path, m) ==
    IF handlers # <<>> THEN Some(1) ELSE None

\* RunBridge::find_handler: the index of the first matching entry.
find_handler(handlers, path, m) ==
    IF \E i \in 1..Len(handlers) : matches(handlers[i], path, m)
    THEN Some(CHOOSE i \in 1..Len(handlers) :
                 /\ matches(handlers[i], path, m)
                 /\ \A j \in 1..(i - 1) : ~matches(handlers[j], path, m))
    ELSE None

\* RunBridge::find_handler: the table afterwards.  iter().find() calls
\* matches on the entries up to the one it returns.
after_find_handler(handlers, path, m) ==
    LET found == find_handler(handlers, path, m)
        tried == IF found.some THEN found.val ELSE Len(handlers)
    IN [i \in 1..Len(handlers) |->
           IF i <= tried THEN after_matches(handlers[i], m) ELSE handlers[i]]

\* path_pattern().matches('/').count()
slash_count(path_pattern) ==
    Cardinality({i \in 1..Len(path_pattern) : path_pattern[i] = 47})

\* A re-sort that leaves the table as it is.
sort_unstable_by_nothing(handlers) == {handlers}

\* handlers.sort_unstable_by(|a, b| count_b.cmp(&count_a)): the table in
\* descending order of slash_count.  The sort is not stable: entries that
\* compare equal may come out in any order.
sort_unstable_by(handlers) ==
    LET n == Len(handlers)
        perms == {p \in [1..n -> 1..n] : \A a, b \in 1..n : a # b => p[a] # p[b]}
    IN {[i \in 1..n |-> handlers[p[i]]] :
           p \in {q \in perms :
                    \A a, b \in 1..n :
                       a < b => slash_count(handlers[q[a]].path_pattern)
                                   >= slash_count(handlers[q[b]].path_pattern)}}

\* RunBridgeBuilder::handler: the tables that may result.
register_handler(handlers, route) == sort_unstable_by(Append(handlers, route))

(***************************************************************************)
(* The inputs of the model: string literals of the environments, requests  *)
(* and responses explored.                                                 *)
(***************************************************************************)
\* A User-Agent of 202 bytes: 199 times 'a', then U+00E9 (bytes C3 A9), 'a'.
ua_wide == [i \in 1..199 |-> 97] \o <<195, 169, 97>>

(***************************************************************************)
(* Bounds of the model.                                                    *)
(***************************************************************************)
MaxMiddlewares == 2

\* The errors returned: one of every kind, and one kind with every message.
Errors ==
    LET \* Messages carried by the errors that middleware and handlers return.
        Msgs == {str_input.boom, str_input.db_password}
    IN
    {Error(k, str_input.db_password) : k \in ErrorKinds}
        \cup {Error("InternalServerError", m) : m \in Msgs}

NoError == Error("none", <<>>)

NoResponse == [status |-> 0, headers |-> EmptyMap, body |-> None]

\* What one call of a middleware step or of a handler may do: return Ok,
\* return Err(e), or panic.
Outcome(t, e, r) == [t |-> t, e |-> e, r |-> r]

MiddlewareOutcomes ==
    {Outcome("ok", NoError, NoResponse), Outcome("panic", NoError, NoResponse)}
        \cup {Outcome("err", e, NoResponse) : e \in Errors}

\* tests/integration_tests.rs, TestMiddleware: pre_process and post_process
\* stamp a header with the middleware's name.
MiddlewareName(i) == str_test.Test \o Dec(i)

pre_process(i, req) ==
    [req EXCEPT !.headers = Insert(@, str_test.X_Middleware, MiddlewareName(i))]

post_process(i, res) ==
    [res EXCEPT !.headers = Insert(@, str_test.X_Middleware_Response, MiddlewareName(i))]

HandlerOutcomes ==
    LET \* The responses a handler of the model may return: a plain one; one with
        \* CR LF in a header value and one with a space in a header name (headers
        \* written straight into the public `headers` map bypass with_header); one
        \* with such a value under the reserved names only; one without a body;
        \* one with two cookies in one Set-Cookie header.
        HandlerResponses ==
            LET r_plain == with_body(with_header(Response_new(200),
                                                 str_http.Content_Type,
                                                 str_http.text_plain),
                                     str_input.hi)
                r_crlf == [r_plain EXCEPT
                             !.headers = Insert(@, str_input.X_Evil, str_input.crlf_value)]
                r_badname == [r_plain EXCEPT
                                !.headers = Insert(@, str_input.Bad_Name, str_input.v)]
                r_reserved == [r_plain EXCEPT
                                 !.headers = Insert(Insert(@, str_input.status,
                                                           str_input.crlf_value),
                                                    str_input.CONTENT_LENGTH_header,
                                                    str_input.n99)]
                r_nobody == Response_new(204)
                r_cookies == [r_plain EXCEPT
                                !.headers = Insert(@, str_response.Set_Cookie,
                                                   str_input.two_cookies)]
            IN {r_plain, r_crlf, r_badname, r_reserved, r_nobody, r_cookies}
    IN
    {Outcome("panic", NoError, NoResponse)}
        \cup {Outcome("err", e, NoResponse) : e \in Errors}
        \cup {Outcome("ok", NoError, r) : r \in HandlerResponses}

\* The application: the route table and the number of middlewares.
App(n) ==
    [handlers |-> <<try_new("GET", str_input.root_pattern, 1).val>>,
     middlewares |-> n]

\* The environments: each variable is unset or has one of its values.
Unset == <<0>>

EnvPool ==
    (str_core.REQUEST_METHOD :> {Unset, str_input.get, str_input.BREW})
    @@ (str_core.PATH_INFO :> {Unset, str_input.nope})
    @@ (str_request.CONTENT_LENGTH :> {Unset, str_input.n23, str_input.n24, str_input.two_pow_64})
    @@ (s_RUNBRIDGE_MAX_BODY_SIZE :> {Unset, str_input.n23, str_input.n26})
    @@ (str_input.HTTP_CONTENT_ENCODING :> {Unset, str_http.gzip})
    @@ (str_input.HTTP_USER_AGENT :> {Unset, ua_wide})
    @@ (str_input.HTTP_X_DOT_Y :> {Unset, str_input.v})

Environments ==
    LET RECURSIVE Over(_)
        Over(keys) ==
            IF keys = {} THEN {EmptyMap}
            ELSE LET k == CHOOSE x \in keys : TRUE
                     rest == Over(keys \ {k})
                 IN rest \cup {Insert(e, k, v) :
                                  e \in rest, v \in EnvPool[k] \ {Unset}}
    IN Over(DOMAIN EnvPool)

\* The invocations explored.  Either the request has no body and the
\* method, the path and the number of middlewares vary, and without
\* middlewares also the User-Agent and a header variable with a dot in its
\* name; or it is a GET of the registered path with one middleware and the
\* body, its length, its encoding and the size limit vary, and with the
\* default size limit also the User-Agent.
Invocations ==
    LET StdinPool == {<<>>, gz_a26, gz_a26_badcrc}
    IN
    LET BodyVars == {str_request.CONTENT_LENGTH, s_RUNBRIDGE_MAX_BODY_SIZE,
                     str_input.HTTP_CONTENT_ENCODING}
        HeaderVars == {str_input.HTTP_USER_AGENT, str_input.HTTP_X_DOT_Y}
    IN
    {v \in [env : {x \in Environments : DOMAIN x \cap BodyVars = {}},
            stdin : {<<>>},
            app : {App(n) : n \in 0..MaxMiddlewares}] :
        v.app.middlewares = 0 \/ DOMAIN v.env \cap HeaderVars = {}}
    \cup
    {v \in [env : {x \in Environments :
                      /\ str_core.REQUEST_METHOD \in DOMAIN x
                      /\ x[str_core.REQUEST_METHOD] = str_input.get
                      /\ str_core.PATH_INFO \notin DOMAIN x
                      /\ str_input.HTTP_X_DOT_Y \notin DOMAIN x},
            stdin : StdinPool,
            app : {App(1)}] :
        \/ str_input.HTTP_USER_AGENT \notin DOMAIN v.env
        \/ s_RUNBRIDGE_MAX_BODY_SIZE \notin DOMAIN v.env}

(***************************************************************************)
(* State.                                                                  *)
(***************************************************************************)
VARIABLES
    env,          \* the process environment
    stdin,        \* the bytes standard input holds
    app,          \* the RunBridge application: handlers and middlewares
    pc,           \* where run_cgi (and the spawned task) is
    method,       \* run_cgi's `method`
    path,         \* run_cgi's `path`
    headers,      \* run_cgi's `headers`, the result of get_cgi_headers
    consumed,     \* number of bytes read from standard input
    request,      \* the Request, once built
    processed_request, \* process_request's `processed_request`
    decoder,      \* the gzip decoder: bytes still to yield, error at the end
    decompressed, \* decompress_gzip_body's output buffer
    handler,      \* index of the matched route entry
    idx,          \* position of the current middleware loop
    response,     \* the in-flight Response of process_request
    task,         \* how the spawned task ended
    calls,        \* the middleware steps and handlers invoked, in order
    last,         \* the latest of these calls, with its argument
    stdout,       \* the writes made to standard output
    exit,         \* how the process ended
    arg,          \* a function called on its own: its argument
    ret           \* and what it returned

vars == <<env, stdin, app, pc, method, path, headers, consumed, request,
          processed_request, decoder, decompressed, handler, idx, response,
          task, calls, last, stdout, exit, arg, ret>>

\* The variables of a function called on its own.
aside == <<arg, ret>>

inputs == <<env, stdin, app>>

NoRequest == [method |-> "none", path |-> <<>>, headers |-> EmptyMap, body |-> None]

NoDecoder == [out |-> <<>>, err |-> FALSE]

Task(t, e, r) == [t |-> t, e |-> e, r |-> r]

NoCall == [op |-> "none", i |-> 0, outcome |-> Outcome("none", NoError, NoResponse),
           req |-> NoRequest, res |-> NoResponse]

Init ==
    /\ \E v \in Invocations :
          /\ env = v.env
          /\ stdin = v.stdin
          /\ app = v.app
    /\ pc = "start"
    /\ method = "none"
    /\ path = <<>>
    /\ headers = EmptyMap
    /\ consumed = 0
    /\ request = NoRequest
    /\ processed_request = NoRequest
    /\ decoder = NoDecoder
    /\ decompressed = <<>>
    /\ handler = 0
    /\ idx = 0
    /\ response = NoResponse
    /\ task = Task("none", NoError, NoResponse)
    /\ calls = <<>>
    /\ last = NoCall
    /\ stdout = <<>>
    /\ exit = "running"
    /\ arg = <<>>
    /\ ret = <<>>

(***************************************************************************)
(* cgi/core.rs, run_cgi.                                                   *)
(***************************************************************************)
\* run_cgi returns Ok(()) after writing `res`.
RespondAndExit(res) ==
    LET \* write_response: the writes go to standard output.
        write_response(r, o) == stdout \o write_response_to(r, o)
    IN
    /\ \E order \in IterationOrders(res.headers) :
          stdout' = write_response(res, order)
    /\ pc' = "exited"
    /\ exit' = "ok"

\* run_cgi returns Err: main logs the error and exits with status 1.
FailAndExit ==
    /\ pc' = "exited"
    /\ exit' = "err"
    /\ stdout' = stdout

\* Lines 17-32: REQUEST_METHOD, PATH_INFO and the headers.
Ingest ==
    /\ pc = "start"
    /\ LET method_str == env_var(env, str_core.REQUEST_METHOD)
           m == Method_from_str(method_str.val)
       IN IF ~method_str.ok \/ ~m.some
          THEN /\ FailAndExit
               /\ UNCHANGED <<method, path, headers>>
          ELSE /\ method' = m.val
               /\ path' = (IF env_var(env, str_core.PATH_INFO).ok
                           THEN env_var(env, str_core.PATH_INFO).val ELSE str_core.slash)
               /\ \E order \in IterationOrders(env) :
                     headers' = get_cgi_headers(env, order)
               /\ pc' = "read_body"
               /\ UNCHANGED <<stdout, exit>>
    /\ UNCHANGED <<inputs, aside, consumed, request, processed_request, decoder,
                   decompressed, handler, idx, response, task, calls, last>>

\* The header map with its keys as get_cgi_headers made them.
LowerCaseKeys_keeping_case(map) == map

\* The keys of a header map, lower-cased.  get_cgi_headers yields names in
\* title case, so no two keys fall together.
LowerCaseKeys(map) ==
    [k \in {to_ascii_lowercase(x) : x \in DOMAIN map} |->
        map[CHOOSE x \in DOMAIN map : to_ascii_lowercase(x) = k]]

\* Lines 35-55: the body is read and the Request built.
ReadBody ==
    LET PayloadTooLargeResponse ==
            with_body(with_header(Response_new(413), str_core.Content_Type, str_core.text_plain),
                      str_core.Payload_Too_Large)
    IN
    /\ pc = "read_body"
    /\ LET r == read_request_body(env, stdin) IN
       /\ consumed' = r.consumed
       /\ IF r.res.ok
          THEN /\ request' = [method |-> method, path |-> path,
                              headers |-> LowerCaseKeys(headers),
                              body |-> r.res.val]
               /\ pc' = "decompress"
               /\ UNCHANGED <<stdout, exit>>
          ELSE IF r.res.err.kind = "PayloadTooLarge"
          THEN /\ RespondAndExit(PayloadTooLargeResponse)
               /\ UNCHANGED request
          ELSE /\ FailAndExit
               /\ UNCHANGED request
    /\ UNCHANGED <<inputs, aside, method, path, headers, processed_request, decoder,
                   decompressed, handler, idx, response, task, calls, last>>

\* Lines 58-65: what run_cgi does with an error of decompress_gzip_body.
DecompressFailed(e) ==
    RespondAndExit(
        with_body(with_header(Response_new(400), str_core.Content_Type, str_core.text_plain),
                  str_core.Bad_Request_colon \o Display(e)))

\* common/http.rs, decompress_gzip_body, lines 236-242: is there a gzip
\* body to decode?
needs_gunzip(req) ==
    /\ str_http.content_encoding \in DOMAIN req.headers
    /\ to_ascii_lowercase(req.headers[str_http.content_encoding]) = str_http.gzip
    /\ req.body.some

DecompressBegin ==
    /\ pc = "decompress"
    /\ IF needs_gunzip(request)
       THEN /\ decoder' = GzDecoderRun(request.body.val)
            /\ decompressed' = <<>>
            /\ pc' = "gunzip"
       ELSE /\ pc' = "find"
            /\ UNCHANGED <<decoder, decompressed>>
    /\ UNCHANGED <<inputs, aside, method, path, headers, consumed, request,
                   processed_request, handler, idx, response, task, calls, last,
                   stdout, exit>>

\* A guard that looks at the buffer only, not at the chunk to append.
chunk_exceeds_ignoring_chunk(current_size, n, max_body_size) ==
    current_size > max_body_size

\* A guard that refuses a payload of exactly the maximum size.
chunk_exceeds_at_limit(current_size, n, max_body_size) ==
    current_size + n >= max_body_size

\* The guard before a chunk of n bytes is appended (line 249).
chunk_exceeds(current_size, n, max_body_size) == current_size + n > max_body_size

gzip_too_large_error(max_body_size) ==
    Error("PayloadTooLarge",
          str_http.Decompressed_too_large_pre \o Dec(max_body_size) \o str_http.bytes_close)

\* One iteration of the read loop (lines 244-270) and, at end of stream,
\* lines 272-279.
DecompressChunk ==
    LET gzip_invalid_error == Error("InvalidRequestBody", str_http.Invalid_gzip_pre \o str_input.io_error)
    IN
    /\ pc = "gunzip"
    /\ IF decoder.out = <<>>
       THEN IF decoder.err
            THEN /\ DecompressFailed(gzip_invalid_error)
                 /\ UNCHANGED <<request, decoder, decompressed>>
            ELSE /\ request' = [request EXCEPT
                                  !.body = Some(decompressed),
                                  !.headers = Remove(@, str_http.content_encoding)]
                 /\ pc' = "find"
                 /\ UNCHANGED <<decoder, decompressed, stdout, exit>>
       ELSE \E n \in ReadSizes(Len(decoder.out)) :
               IF chunk_exceeds(Len(decompressed), n, get_max_body_size(env))
               THEN /\ DecompressFailed(gzip_too_large_error(get_max_body_size(env)))
                    /\ UNCHANGED <<request, decoder, decompressed>>
               ELSE /\ decompressed' = decompressed \o SubSeq(decoder.out, 1, n)
                    /\ decoder' = [decoder EXCEPT
                                     !.out = SubSeq(@, n + 1, Len(@))]
                    /\ UNCHANGED <<request, pc, stdout, exit>>
    /\ UNCHANGED <<inputs, aside, method, path, headers, consumed, processed_request,
                   handler, idx, response, task, calls, last>>

(***************************************************************************)
(* cgi/core.rs, process_request: the body of the spawned task.             *)
(***************************************************************************)
\* A call as a test double records it: which step of which middleware (or
\* which handler), and what it did.
Called(op, i, outcome) == [op |-> op, i |-> i, outcome |-> outcome]

\* The latest call, with the Request or Response it was given.
Call(op, i, outcome, req, res) ==
    [op |-> op, i |-> i, outcome |-> outcome, req |-> req, res |-> res]

\* The task ends: with Ok(res), with Err(e), or by panicking.
TaskEnds(t, e, r) ==
    /\ task' = Task(t, e, r)
    /\ pc' = "join"

\* Lines 124-126.
FindHandler ==
    /\ pc = "find"
    /\ app' = [app EXCEPT !.handlers =
                  after_find_handler(@, request.path, request.method)]
    /\ LET h == find_handler(app.handlers, request.path, request.method) IN
       IF h.some
       THEN /\ handler' = h.val
            /\ processed_request' = request
            /\ idx' = 1
            /\ pc' = "pre"
            /\ UNCHANGED task
       ELSE /\ TaskEnds("err",
                        Error("RouteNotFound",
                              MethodName(request.method) \o str_core.space \o request.path),
                        NoResponse)
            /\ UNCHANGED <<handler, idx, processed_request>>
    /\ UNCHANGED <<env, stdin, aside, method, path, headers, consumed, request, decoder,
                   decompressed, response, calls, last, stdout, exit>>

\* The middleware whose pre-step is the i-th to run of n: the loop is
\* `for middleware in app.middlewares()`, and lib.rs registers by push.
pre_middleware_at(i, n) == i

\* The post-steps taken in the reverse of the registration order.
post_middleware_reversed(i, n) == n + 1 - i

\* The middleware whose post-step is the i-th to run of n: again
\* `for middleware in app.middlewares()`.
post_middleware_at(i, n) == i

\* A pre-step loop that drops a pre-step's error and goes on.
pre_step_ignoring_error(outcome, m, req) ==
    CASE outcome.t = "ok" -> [t |-> "continue", req |-> pre_process(m, req), e |-> NoError]
      [] outcome.t = "err" -> [t |-> "continue", req |-> req, e |-> NoError]
      [] outcome.t = "panic" -> [t |-> "panic", req |-> req, e |-> NoError]

\* `processed_request = middleware.pre_process(processed_request).await?`:
\* the Request the loop goes on with, or the end of the task.
pre_step(outcome, m, req) ==
    CASE outcome.t = "ok" -> [t |-> "continue", req |-> pre_process(m, req), e |-> NoError]
      [] outcome.t = "err" -> [t |-> "err", req |-> req, e |-> outcome.e]
      [] outcome.t = "panic" -> [t |-> "panic", req |-> req, e |-> NoError]

\* Lines 130-132, one iteration.
PreStep ==
    /\ pc = "pre"
    /\ idx <= app.middlewares
    /\ \E outcome \in MiddlewareOutcomes :
         LET m == pre_middleware_at(idx, app.middlewares)
             s == pre_step(outcome, m, processed_request)
         IN /\ calls' = Append(calls, Called("pre", m, outcome))
            /\ last' = Call("pre", m, outcome, processed_request, NoResponse)
            /\ processed_request' = s.req
            /\ IF s.t = "continue"
               THEN /\ idx' = idx + 1
                    /\ UNCHANGED <<pc, task>>
               ELSE /\ TaskEnds(s.t, s.e, NoResponse)
                    /\ UNCHANGED idx
    /\ UNCHANGED <<inputs, aside, method, path, headers, consumed, request, decoder,
                   decompressed, handler, response, stdout, exit>>

\* Lines 138-144: the handler's result; an error ends the task with
\* `return Ok(Response::from_error(&e))`.
handler_step(outcome) ==
    CASE outcome.t = "ok" -> [t |-> "continue", res |-> outcome.r]
      [] outcome.t = "err" -> [t |-> "return", res |-> Response_from_error(outcome.e)]
      [] outcome.t = "panic" -> [t |-> "panic", res |-> NoResponse]

\* Lines 135-144.
Handle ==
    /\ pc = "pre"
    /\ idx > app.middlewares
    /\ \E outcome \in HandlerOutcomes :
         LET s == handler_step(outcome) IN
         /\ calls' = Append(calls, Called("handle", handler, outcome))
         /\ last' = Call("handle", handler, outcome, processed_request, NoResponse)
         /\ CASE s.t = "continue" ->
                   /\ response' = s.res
                   /\ idx' = 1
                   /\ pc' = "post"
                   /\ UNCHANGED task
              [] s.t = "return" ->
                   /\ TaskEnds("ok", NoError, s.res)
                   /\ UNCHANGED <<response, idx>>
              [] s.t = "panic" ->
                   /\ TaskEnds("panic", NoError, NoResponse)
                   /\ UNCHANGED <<response, idx>>
    /\ UNCHANGED <<inputs, aside, method, path, headers, consumed, request,
                   processed_request, decoder, decompressed, handler, stdout,
                   exit>>

\* A post-step loop that keeps the Response it had when a post-step fails.
post_step_keeping_response(outcome, m, res) ==
    CASE outcome.t = "ok" -> [t |-> "continue", res |-> post_process(m, res)]
      [] outcome.t = "err" -> [t |-> "continue", res |-> res]
      [] outcome.t = "panic" -> [t |-> "panic", res |-> res]

\* Lines 148-154: the Response the loop goes on with after one post-step.
post_step(outcome, m, res) ==
    CASE outcome.t = "ok" -> [t |-> "continue", res |-> post_process(m, res)]
      [] outcome.t = "err" -> [t |-> "continue", res |-> Response_from_error(outcome.e)]
      [] outcome.t = "panic" -> [t |-> "panic", res |-> res]

\* Lines 147-155, one iteration.
PostStep ==
    /\ pc = "post"
    /\ idx <= app.middlewares
    /\ \E outcome \in MiddlewareOutcomes :
         LET m == post_middleware_at(idx, app.middlewares)
             s == post_step(outcome, m, response)
         IN /\ calls' = Append(calls, Called("post", m, outcome))
            /\ last' = Call("post", m, outcome, NoRequest, response)
            /\ response' = s.res
            /\ IF s.t = "continue"
               THEN /\ idx' = idx + 1
                    /\ UNCHANGED <<pc, task>>
               ELSE /\ TaskEnds("panic", NoError, NoResponse)
                    /\ UNCHANGED idx
    /\ UNCHANGED <<inputs, aside, method, path, headers, consumed, request,
                   processed_request, decoder, decompressed, handler, stdout,
                   exit>>

\* Line 157: Ok(response).
ReturnResponse ==
    /\ pc = "post"
    /\ idx > app.middlewares
    /\ TaskEnds("ok", NoError, response)
    /\ UNCHANGED <<inputs, aside, method, path, headers, consumed, request,
                   processed_request, decoder, decompressed, handler, idx,
                   response, calls, last, stdout, exit>>

(***************************************************************************)
(* cgi/core.rs, run_cgi, lines 75-118: the task is joined and the response *)
(* written.                                                                *)
(***************************************************************************)
\* Lines 82-91: the Response for an error returned by process_request.
error_response(err) ==
    IF err.kind = "RouteNotFound"
    THEN with_body(with_header(Response_not_found, str_core.Content_Type, str_core.text_plain),
                   str_core.Not_Found_colon \o err.msg)
    ELSE with_body(with_header(Response_internal_server_error,
                               str_core.Content_Type, str_core.text_plain),
                   str_core.Internal_Server_Error_colon \o Display(err))

Join ==
    LET \* Lines 108-110: the Response for a task that panicked.
        panic_response ==
            with_body(with_header(Response_internal_server_error,
                                  str_core.Content_Type, str_core.text_plain),
                      str_core.Internal_Server_Error)
    IN
    /\ pc = "join"
    /\ CASE task.t = "ok" -> RespondAndExit(task.r)
         [] task.t = "err" -> RespondAndExit(error_response(task.e))
         [] task.t = "panic" ->
              IF gather_cgi_panic_context_panics(env)
              THEN \* run_cgi itself panics: the process aborts
                   /\ pc' = "exited"
                   /\ exit' = "panic"
                   /\ stdout' = stdout
              ELSE RespondAndExit(panic_response)
    /\ UNCHANGED <<inputs, aside, method, path, headers, consumed, request,
                   processed_request, decoder, decompressed, handler, idx,
                   response, task, calls, last>>

Next ==
    \/ Ingest
    \/ ReadBody
    \/ DecompressBegin
    \/ DecompressChunk
    \/ FindHandler
    \/ PreStep
    \/ Handle
    \/ PostStep
    \/ ReturnResponse
    \/ Join

Spec == Init /\ [][Next]_vars

(***************************************************************************)
(* cgi/validation.rs on its own: is_valid_header_value applied to header   *)
(* values.  A value is a &str, a sequence of characters; the function      *)
(* looks at its UTF-8 bytes.                                               *)
(***************************************************************************)
MaxValueLen == 2

\* The values: strings of up to MaxValueLen characters among NUL, HTAB,
\* LF, CR, ESC, US, space, '!', 'A', '~', DEL, U+0080, U+00E9, U+20AC.
HeaderValues ==
    LET Chars == {0, 9, 10, 13, 27, 31, 32, 33, 65, 126, 127, 128, 233, 8364}
    IN UNION {[1..n -> Chars] : n \in 0..MaxValueLen}

\* The UTF-8 bytes of a &str, as as_bytes() yields them: the encodings of
\* its characters one after the other.
RECURSIVE as_bytes(_)
as_bytes(value) ==
    IF value = <<>> THEN <<>>
    ELSE IF Len(value) = 1
    THEN LET c == value[1] IN
         IF c < 128 THEN <<c>>
         ELSE IF c < 2048
         THEN <<192 + (c \div 64), 128 + (c % 64)>>
         ELSE <<224 + (c \div 4096), 128 + ((c \div 64) % 64),
                128 + (c % 64)>>
    ELSE LET half == Len(value) \div 2
         IN as_bytes(SubSeq(value, 1, half))
                \o as_bytes(SubSeq(value, half + 1, Len(value)))

\* Every variable of run_cgi at its value before the first step.
Idle ==
    /\ method = "none"
    /\ path = <<>>
    /\ headers = EmptyMap
    /\ consumed = 0
    /\ request = NoRequest
    /\ processed_request = NoRequest
    /\ decoder = NoDecoder
    /\ decompressed = <<>>
    /\ handler = 0
    /\ idx = 0
    /\ response = NoResponse
    /\ task = Task("none", NoError, NoResponse)
    /\ calls = <<>>
    /\ last = NoCall
    /\ stdout = <<>>

\* The variables of run_cgi but idx and last.
run_cgi_vars ==
    <<method, path, headers, consumed, request, processed_request, decoder,
      decompressed, handler, response, task, calls, stdout>>

InitSanitizer ==
    /\ env = EmptyMap
    /\ stdin = <<>>
    /\ app = App(0)
    /\ pc = "validate"
    /\ exit = "running"
    /\ Idle
    /\ arg = None
    /\ ret = None

\* One call of is_valid_header_value: arg is the value, ret the answer.
Validate ==
    /\ pc = "validate"
    /\ \E value \in HeaderValues :
          /\ arg' = Some(value)
          /\ ret' = Some(is_valid_header_value(as_bytes(value)))
    /\ pc' = "validated"
    /\ UNCHANGED <<inputs, exit, idx, last, run_cgi_vars>>

NextSanitizer == Validate

SpecSanitizer == InitSanitizer /\ [][NextSanitizer]_vars

(***************************************************************************)
(* Functions of the library called on their own: one behaviour is one call *)
(* of one function, arg its argument and ret what it returns.              *)
(***************************************************************************)
MaxCookies == 2
MaxOver == 2
MaxHeaderCalls == 2

\* split_set_cookie_header(&joined)
SplitSetCookie ==
    \* The cookies joined with ', ' into one Set-Cookie value.
    LET RECURSIVE JoinCookies(_)
        JoinCookies(cookies) ==
            IF cookies = <<>> THEN <<>>
            ELSE IF Len(cookies) = 1 THEN cookies[1]
            ELSE cookies[1] \o str_input.cookie_sep \o JoinCookies(Tail(cookies))
    IN
    LET \* The lists of cookies: 'b=2', and 'a=1' followed by some of the
        \* attributes Path, Expires and Secure in any order.
        CookieLists ==
            LET attrs == {str_input.attr_path, str_input.attr_expires,
                          str_input.attr_secure}
                orders == UNION {{q \in [1..n -> attrs] :
                                     \A i, j \in 1..n : i # j => q[i] # q[j]} :
                                 n \in 0..Cardinality(attrs)}
                RECURSIVE text(_, _)
                text(q, i) ==
                    IF i > Len(q) THEN <<>>
                    ELSE str_input.attr_sep \o q[i] \o text(q, i + 1)
                cookies == {str_input.cookie_b}
                               \cup {str_input.cookie_a \o text(q, 1) : q \in orders}
            IN UNION {[1..n -> cookies] : n \in 0..MaxCookies}
    IN
    /\ pc = "validate"
    /\ \E cookies \in CookieLists :
          /\ arg' = Some(cookies)
          /\ ret' = Some(split_set_cookie_header(JoinCookies(cookies)))
    /\ pc' = "split"
    /\ UNCHANGED <<inputs, exit, idx, last, run_cgi_vars>>

\* gather_cgi_panic_context("GET", "/") in two environments that have the
\* same variables set.
GatherPanicContext ==
    LET \* The environments the panic context is gathered in: QUERY_STRING (the
        \* first of basic_vars), HTTP_USER_AGENT, HTTP_AUTHORIZATION and
        \* HTTP_COOKIE (the second, ninth and tenth of http_headers), each unset
        \* or with one of its values.
        LogEnvironments ==
            LET pool == (basic_vars[1] :> {Unset, <<>>, str_input.qs_1x,
                                           str_input.qs_1y, str_input.qs_2x})
                        @@ (http_headers[2] :> {Unset, str_input.curl, ua_wide})
                        @@ (http_headers[9] :> {Unset, str_input.bearer_x,
                                                str_input.bearer_y})
                        @@ (http_headers[10] :> {Unset, str_input.sid_1,
                                                 str_input.sid_2})
                RECURSIVE Over(_)
                Over(keys) ==
                    IF keys = {} THEN {EmptyMap}
                    ELSE LET k == CHOOSE x \in keys : TRUE
                             rest == Over(keys \ {k})
                         IN rest \cup {Insert(e, k, v) :
                                          e \in rest, v \in pool[k] \ {Unset}}
            IN Over(DOMAIN pool)
    IN
    /\ pc = "validate"
    /\ \E e1, e2 \in LogEnvironments :
          /\ DOMAIN e1 = DOMAIN e2
          /\ arg' = Some(<<e1, e2>>)
          /\ ret' = Some(<<gather_cgi_panic_context(e1, str_input.GET, str_core.slash),
                           gather_cgi_panic_context(e2, str_input.GET, str_core.slash)>>)
    /\ pc' = "gathered"
    /\ UNCHANGED <<inputs, exit, idx, last, run_cgi_vars>>

\* redact_value_for_log(key, value) for HTTP_HOST and HTTP_USER_AGENT and
\* values of 'a' with at most one 'e' with an acute accent, of lengths
\* around the truncation length; arg holds the characters of the value.
RedactValue ==
    /\ pc = "validate"
    /\ \E key \in {http_headers[1], http_headers[2]},
          n \in {0, 1} \cup ((TRUNCATE_AT - 1)..(TRUNCATE_AT + MaxOver)),
          w \in {0, 1, TRUNCATE_AT - 1, TRUNCATE_AT, TRUNCATE_AT + 1} :
          /\ w <= n
          /\ LET value == [i \in 1..n |-> IF i = w THEN 233 ELSE 97] IN
             /\ arg' = Some([key |-> key, value |-> value])
             /\ ret' = Some(redact_value_for_log(key, as_bytes(value)))
    /\ pc' = "redacted"
    /\ UNCHANGED <<inputs, exit, idx, last, run_cgi_vars>>

\* The with_header / ResponseBuilder::header calls a caller makes: a default
\* security header key or another key, with a valid or an invalid value.
HeaderCalls ==
    [key : {str_http.X_Frame_Options, str_input.X_Evil},
     value : {str_input.SAMEORIGIN, str_input.crlf_value}]

\* A Response is constructed: Response::new, Response::with_status, or
\* ResponseBuilder::new, header calls, build.  arg is the sequence of header
\* calls made so far, ret the Response.
NewResponse ==
    \* ResponseBuilder::header, called for calls[i], calls[i + 1], ... in turn.
    LET RECURSIVE ApplyHeaderCalls(_, _, _)
        ApplyHeaderCalls(r, hs, i) ==
            IF i > Len(hs) THEN r
            ELSE ApplyHeaderCalls(with_header(r, hs[i].key, hs[i].value), hs, i + 1)
    IN
    /\ pc = "validate"
    /\ \E status \in {200, 404} :
          \/ /\ arg' = Some(<<>>)
             /\ ret' = Some(Response_new(status))
          \/ \E hs \in UNION {[1..n -> HeaderCalls] : n \in 0..(MaxHeaderCalls - 1)} :
                LET builder == ApplyHeaderCalls(Response_new(status), hs, 1) IN
                /\ arg' = Some(hs)
                /\ ret' = Some([builder EXCEPT
                                  !.headers = inject_default_security_headers(@)])
    /\ pc' = "built"
    /\ UNCHANGED <<inputs, exit, idx, last, run_cgi_vars>>

\* One more with_header call on the Response.
WithHeader ==
    /\ pc = "built"
    /\ Len(arg.val) < MaxHeaderCalls
    /\ \E call \in HeaderCalls :
          /\ arg' = Some(Append(arg.val, call))
          /\ ret' = Some(with_header(ret.val, call.key, call.value))
    /\ UNCHANGED <<inputs, exit, idx, last, pc, run_cgi_vars>>

(***************************************************************************)
(* The dispatch pipelines of the three transports, each run on the same    *)
(* application and Request with the same behaviour of the middlewares and  *)
(* the handler: beh.pre[m] and beh.post[m] are what the steps of           *)
(* middleware m return, beh.handle what the handler returns.               *)
(***************************************************************************)
\* The pre-step loop (cgi/core.rs 130-132, lambda.rs 203-215, cloudrun.rs
\* 108-120): it stops at the first pre-step that returns an error.
RECURSIVE run_pre_steps(_, _, _, _)
run_pre_steps(beh, n, i, s) ==
    IF i > n \/ s.t # "continue" THEN s
    ELSE LET m == pre_middleware_at(i, n)
             r == pre_step(beh.pre[m], m, s.req)
         IN run_pre_steps(beh, n, i + 1,
                          [t |-> r.t, req |-> r.req, e |-> r.e,
                           calls |-> Append(s.calls, Called("pre", m, beh.pre[m]))])

\* The post-step loop (cgi/core.rs 147-155, lambda.rs 230-239, cloudrun.rs
\* 134-143).
RECURSIVE run_post_steps(_, _, _, _)
run_post_steps(beh, n, i, s) ==
    IF i > n THEN s
    ELSE LET m == post_middleware_at(i, n)
         IN run_post_steps(beh, n, i + 1,
                           [res |-> post_step(beh.post[m], m, s.res).res,
                            calls |-> Append(s.calls, Called("post", m, beh.post[m]))])

\* cgi/core.rs, process_request, as a function of the behaviour: the calls
\* made and the Result returned.
process_request(a, req, beh) ==
    LET h == find_handler(a.handlers, req.path, req.method)
        p == run_pre_steps(beh, a.middlewares, 1,
                           [t |-> "continue", req |-> req, e |-> NoError,
                            calls |-> <<>>])
        hs == handler_step(beh.handle)
        cs == Append(p.calls, Called("handle", h.val, beh.handle))
        q == run_post_steps(beh, a.middlewares, 1, [res |-> hs.res, calls |-> cs])
    IN IF ~h.some
       THEN [calls |-> <<>>,
             result |-> Err(Error("RouteNotFound",
                                  MethodName(req.method) \o str_core.space \o req.path))]
       ELSE IF p.t = "err" THEN [calls |-> p.calls, result |-> Err(p.e)]
       ELSE IF hs.t = "return" THEN [calls |-> cs, result |-> Ok(hs.res)]
       ELSE [calls |-> q.calls, result |-> Ok(q.res)]

\* lambda.rs, lambda_handler, lines 189-242, from the converted Request on.
lambda_handler(a, req, beh) ==
    LET h == find_handler(a.handlers, req.path, req.method)
        p == run_pre_steps(beh, a.middlewares, 1,
                           [t |-> "continue", req |-> req, e |-> NoError,
                            calls |-> <<>>])
        handled == IF beh.handle.t = "ok" THEN beh.handle.r
                    ELSE Response_from_error(beh.handle.e)
        q == run_post_steps(beh, a.middlewares, 1,
                            [res |-> handled,
                             calls |-> Append(p.calls,
                                              Called("handle", h.val, beh.handle))])
    IN IF ~h.some
       THEN [calls |-> <<>>,
             response |-> with_body(Response_not_found, str_lambda.Not_Found)]
       ELSE IF p.t = "err"
       THEN [calls |-> p.calls,
             response |-> with_body(Response_new(status_code(p.e)),
                                    str_lambda.Error_colon \o Display(p.e))]
       ELSE [calls |-> q.calls, response |-> q.res]

\* cloudrun.rs, handle_request, lines 96-147, from the converted Request on.
handle_request(a, req, beh) ==
    LET h == find_handler(a.handlers, req.path, req.method)
        p == run_pre_steps(beh, a.middlewares, 1,
                           [t |-> "continue", req |-> req, e |-> NoError,
                            calls |-> <<>>])
        handled == IF beh.handle.t = "ok" THEN beh.handle.r
                    ELSE Response_from_error(beh.handle.e)
        q == run_post_steps(beh, a.middlewares, 1,
                            [res |-> handled,
                             calls |-> Append(p.calls,
                                              Called("handle", h.val, beh.handle))])
    IN IF ~h.some
       THEN [calls |-> <<>>,
             response |-> with_body(Response_not_found, str_cloudrun.Not_Found)]
       ELSE IF p.t = "err"
       THEN [calls |-> p.calls,
             response |-> with_body(Response_new(status_code(p.e)),
                                    str_cloudrun.Error_colon \o Display(p.e))]
       ELSE [calls |-> q.calls, response |-> q.res]

\* One Request is dispatched by each of the three transports: arg is the
\* application, the Request and the behaviour, ret what each transport
\* called and answered.
Dispatch ==
    LET \* cgi/core.rs, run_cgi, lines 75-93: the Response for what process_request
        \* returned.
        run_cgi_dispatch(a, req, beh) ==
            LET r == process_request(a, req, beh) IN
            [calls |-> r.calls,
             response |-> IF r.result.ok THEN r.result.val ELSE error_response(r.result.err)]
    IN
    LET \* What the middlewares and the handler do in a dispatch: every step
        \* returns Ok or one of two errors, the handler a Response or an error.
        Behaviours(n) ==
            LET errs == {Error("AuthenticationError", str_input.boom),
                         Error("InternalServerError", str_input.boom)}
                steps == {Outcome("ok", NoError, NoResponse)}
                            \cup {Outcome("err", e, NoResponse) : e \in errs}
                r_plain == with_body(with_header(Response_new(200), str_http.Content_Type,
                                                 str_http.text_plain),
                                     str_input.hi)
            IN [pre : [1..n -> steps],
                handle : {Outcome("ok", NoError, r_plain)}
                            \cup {Outcome("err", e, NoResponse) : e \in errs},
                post : [1..n -> steps]]
    IN
    /\ pc = "validate"
    /\ \E n \in 0..MaxMiddlewares, target \in {str_core.slash, str_input.nope} :
          \E beh \in Behaviours(n) :
             LET a == App(n)
                 req == [method |-> "GET", path |-> target, headers |-> EmptyMap,
                         body |-> None]
             IN /\ arg' = Some([app |-> a, request |-> req, beh |-> beh])
                /\ ret' = Some([cgi |-> run_cgi_dispatch(a, req, beh),
                                lambda |-> lambda_handler(a, req, beh),
                                cloudrun |-> handle_request(a, req, beh)])
    /\ pc' = "dispatched"
    /\ UNCHANGED <<inputs, exit, idx, last, run_cgi_vars>>

\* A Response is given one header through with_header and handed to the
\* framer: arg is the value, ret the Response and the framer's writes.
FrameBuilt ==
    /\ pc = "validate"
    /\ \E value \in HeaderValues :
          LET r == with_header(Response_new(200), str_input.X_Evil, as_bytes(value)) IN
          \E order \in IterationOrders(r.headers) :
             /\ arg' = Some(value)
             /\ ret' = Some([response |-> r, out |-> write_response_to(r, order)])
    /\ pc' = "framed"
    /\ UNCHANGED <<inputs, exit, idx, last, run_cgi_vars>>

\* get_cgi_headers is run twice on one environment, env::vars() yielding
\* the variables in two orders: arg is the environment, ret the two maps.
IngestHeaders ==
    LET \* Environments in which two variables stand for the same header: each
        \* variable is unset or set, the two of a pair to different values.
        HeaderEnvironments ==
            LET pool == (str_request.CONTENT_TYPE :> str_http.text_plain)
                        @@ (str_input.HTTP_CONTENT_TYPE :> str_input.application_json)
                        @@ (str_request.CONTENT_LENGTH :> str_input.n23)
                        @@ (str_input.HTTP_CONTENT_LENGTH :> str_input.n24)
                        @@ (str_input.HTTP_X_TEST :> str_input.hi)
                        @@ (str_input.HTTP_X_Test :> str_input.v)
            IN {[k \in keys |-> pool[k]] : keys \in SUBSET DOMAIN pool}
    IN
    /\ pc = "validate"
    /\ \E e \in HeaderEnvironments :
          \E o1, o2 \in IterationOrders(e) :
             /\ arg' = Some(e)
             /\ ret' = Some(<<get_cgi_headers(e, o1), get_cgi_headers(e, o2)>>)
    /\ pc' = "ingested"
    /\ UNCHANGED <<inputs, exit, idx, last, run_cgi_vars>>

NextCalls ==
    \/ Dispatch
    \/ IngestHeaders
    \/ FrameBuilt
    \/ SplitSetCookie
    \/ GatherPanicContext
    \/ RedactValue
    \/ NewResponse
    \/ WithHeader

SpecCalls == InitSanitizer /\ [][NextCalls]_vars

(***************************************************************************)
(* lib.rs and handler/ on their own: a route table is built by             *)
(* RunBridgeBuilder::handler, then RunBridge::find_handler is called on    *)
(* it.  handler_fn numbers the routes in the order of registration.        *)
(***************************************************************************)
MaxRoutes == 2
MaxProbes == 2

\* The routes registered: get(pattern, ..) and post(pattern, ..).
Registrations ==
    {[method |-> "GET", pattern |-> p] :
        p \in {str_input.test, str_input.test_any, str_input.test_deep,
               str_input.test_start, str_input.test_end, str_input.a_or_b,
               str_input.unclosed, str_input.empty}}
    \cup {[method |-> "POST", pattern |-> str_input.test]}

\* The paths looked up.
Paths == {str_input.test, str_input.test_deep, str_input.a_x, str_input.x_test}

\* RouteHandler::new: try_new, with a panic in place of Err.
RouteHandler_new(m, path_pattern, handler_fn) ==
    LET r == try_new(m, path_pattern, handler_fn) IN
    IF r.ok THEN [panic |-> FALSE, route |-> r.val]
    ELSE [panic |-> TRUE, e |-> r.err]

InitRoutes ==
    /\ env = EmptyMap
    /\ stdin = <<>>
    /\ app = [handlers |-> <<>>, middlewares |-> 0]
    /\ pc = "build"
    /\ exit = "running"
    /\ Idle
    /\ arg = None
    /\ ret = None

\* builder.handler(get(pattern, ..)): the route is made, pushed, and the
\* table re-sorted; an empty pattern makes RouteHandler::new panic.
RegisterHandler ==
    /\ pc = "build"
    /\ Len(app.handlers) < MaxRoutes
    /\ \E reg \in Registrations :
          LET i == Len(app.handlers) + 1
              made == RouteHandler_new(reg.method, reg.pattern, i)
          IN /\ last' = [op |-> "handler", method |-> reg.method,
                          pattern |-> reg.pattern, i |-> i, res |-> made]
             /\ IF made.panic
                THEN /\ pc' = "exited"
                     /\ exit' = "panic"
                     /\ app' = app
                ELSE /\ \E sorted \in register_handler(app.handlers, made.route) :
                           app' = [app EXCEPT !.handlers = sorted]
                     /\ UNCHANGED <<pc, exit>>
    /\ UNCHANGED <<env, stdin, run_cgi_vars, idx, arg, ret>>

\* builder.build()
Build ==
    /\ pc = "build"
    /\ pc' = "serve"
    /\ UNCHANGED <<env, stdin, run_cgi_vars, app, exit, idx, last, arg, ret>>

\* app.find_handler(path, method): arg is the lookup, ret the handler_fn of
\* the route returned, idx the number of lookups made.
Probe ==
    /\ pc = "serve"
    /\ idx < MaxProbes
    /\ \E p \in Paths, m \in {"GET", "POST"} :
          LET found == find_handler(app.handlers, p, m) IN
          /\ arg' = Some([path |-> p, method |-> m])
          /\ ret' = IF found.some
                    THEN Some(app.handlers[found.val].handler_fn) ELSE None
          /\ app' = [app EXCEPT !.handlers = after_find_handler(@, p, m)]
    /\ idx' = idx + 1
    /\ UNCHANGED <<env, stdin, run_cgi_vars, pc, exit, last>>

NextRoutes ==
    \/ RegisterHandler
    \/ Build
    \/ Probe

SpecRoutes == InitRoutes /\ [][NextRoutes]_vars

(***************************************************************************)
(* Properties.                                                             *)
(***************************************************************************)
\* The calls of one kind in the log, in the order they were made.
PreCalls == SelectSeq(calls, LAMBDA c : c.op = "pre")
PostCalls == SelectSeq(calls, LAMBDA c : c.op = "post")
HandleCalls == SelectSeq(calls, LAMBDA c : c.op = "handle")

\* The Request after the pre-steps of the middlewares 1..k, taken in
\* registration order, each applied to what the one before returned.
RECURSIVE PreChain(_, _)
PreChain(k, req) ==
    IF k = 0 THEN req ELSE pre_process(k, PreChain(k - 1, req))

\* The Response after the post-steps of the middlewares 1..k, likewise.
RECURSIVE PostChain(_, _)
PostChain(k, res) ==
    IF k = 0 THEN res ELSE post_process(k, PostChain(k - 1, res))

\* A Response has a header, not reserved, whose name or value is invalid.
HasInvalidHeader(res) ==
    \E name \in DOMAIN res.headers :
        /\ ~IsReservedHeader(name)
        /\ ~is_valid_header_name(name) \/ ~is_valid_header_value(res.headers[name])

\* The process ended having written a response.
Answered == pc = "exited" /\ exit = "ok"

WrittenStatus == stdout[1].n

WrittenBody ==
    IF stdout[Len(stdout)].t = "body" THEN stdout[Len(stdout)].b ELSE <<>>

\* C1: the pre-steps run in registration order, each on the Request the
\* one before returned; after the first pre-step that does not return Ok
\* no later pre-step and no handler is invoked.
C1_PreStepsChainAndStop ==
    /\ \A k \in 1..Len(PreCalls) :
          /\ calls[k] = PreCalls[k]
          /\ PreCalls[k].i = k
          /\ k < Len(PreCalls) => PreCalls[k].outcome.t = "ok"
    /\ HandleCalls # <<>> =>
          /\ Len(PreCalls) = app.middlewares
          /\ \A k \in 1..Len(PreCalls) : PreCalls[k].outcome.t = "ok"
    /\ (PreCalls # <<>> /\ PreCalls[Len(PreCalls)].outcome.t = "err") =>
          /\ calls = PreCalls
          /\ pc \in {"join", "exited"}
          /\ task = Task("err", PreCalls[Len(PreCalls)].outcome.e, NoResponse)
    /\ last.op = "pre" => last.req = PreChain(last.i - 1, request)
    /\ last.op = "handle" => last.req = PreChain(app.middlewares, request)

\* C1, witness: the first pre-step returned Ok, the second an error, and
\* the process has ended with nothing else called.
C1_Witness ==
    /\ pc = "exited"
    /\ app.middlewares >= 2
    /\ Len(calls) = 2
    /\ calls[1].op = "pre" /\ calls[1].outcome.t = "ok"
    /\ calls[2].op = "pre" /\ calls[2].outcome.t = "err"
    /\ last.req = pre_process(1, request)

\* C2: when the handler returns an error, the Response made of it is still
\* passed through the post-step of every middleware, in registration order,
\* before it is written.
C2_HandlerErrorIsPostProcessed ==
    (/\ Answered
     /\ task.t = "ok"
     /\ HandleCalls # <<>>
     /\ HandleCalls[1].outcome.t = "err")
        => /\ Len(PostCalls) = app.middlewares
           /\ \A k \in 1..Len(PostCalls) : PostCalls[k].i = k

\* C3: a post-step that returns an error replaces the Response by
\* Response::from_error of that error; the chain goes on, and the post-step
\* after it is given the replacement.
C3_PostErrorReplacesResponse ==
    /\ (last.op = "post" /\ last.outcome.t = "err") =>
          /\ response = Response_from_error(last.outcome.e)
          /\ \/ pc = "post" /\ idx = last.i + 1
             \/ /\ pc \in {"join", "exited"}
                /\ last.i = app.middlewares
                /\ task = Task("ok", NoError, response)
    /\ (last.op = "post" /\ Len(PostCalls) > 1
          /\ PostCalls[Len(PostCalls) - 1].outcome.t = "err") =>
          last.res = Response_from_error(PostCalls[Len(PostCalls) - 1].outcome.e)
    /\ (task.t = "ok" /\ HandleCalls # <<>> /\ HandleCalls[1].outcome.t = "ok") =>
          Len(PostCalls) = app.middlewares

\* C3, witness: the first of two post-steps failed, the second ran on the
\* replacement and the result was written.
C3_Witness ==
    /\ Answered
    /\ Len(PostCalls) = 2
    /\ PostCalls[1].outcome.t = "err"
    /\ PostCalls[2].outcome.t = "ok"
    /\ last.res = Response_from_error(PostCalls[1].outcome.e)
    /\ task.r = post_process(2, last.res)
    /\ WrittenStatus = status_code(PostCalls[1].outcome.e)

\* C4: the post-steps run in registration order, not reversed: where all
\* of them return Ok the Response written is that of the last-registered
\* middleware applied over those before it, so the header value set by the
\* later-registered middleware is the one that remains.
C4_PostStepsInRegistrationOrder ==
    /\ \A k \in 1..Len(PostCalls) : PostCalls[k].i = k
    /\ (/\ task.t = "ok"
        /\ HandleCalls # <<>>
        /\ HandleCalls[1].outcome.t = "ok"
        /\ \A k \in 1..Len(PostCalls) : PostCalls[k].outcome.t = "ok")
          => /\ task.r = PostChain(app.middlewares, HandleCalls[1].outcome.r)
             /\ app.middlewares > 0 =>
                   task.r.headers[str_test.X_Middleware_Response]
                       = MiddlewareName(app.middlewares)
             /\ (Answered /\ app.middlewares > 0 /\ ~HasInvalidHeader(task.r)) =>
                   \E i \in 1..Len(stdout) :
                       stdout[i] = HeaderLine(str_test.X_Middleware_Response,
                                              MiddlewareName(app.middlewares))

\* C4, witness: two middlewares, both post-steps returned Ok, and the
\* header written carries the name of the second.
C4_Witness ==
    /\ Answered
    /\ app.middlewares = 2
    /\ Len(PostCalls) = 2
    /\ PostCalls[1].outcome.t = "ok"
    /\ PostCalls[2].outcome.t = "ok"
    /\ \E i \in 1..Len(stdout) :
          stdout[i] = HeaderLine(str_test.X_Middleware_Response, MiddlewareName(2))

\* C5: when a pre-step fails, the response written carries the status of
\* the error's kind: 401 for an authentication error, 403 for an
\* authorization error, 400 for an invalid body, 502 for an external
\* service error, 500 for the others.
C5_PreErrorStatusOfKind ==
    (/\ Answered
     /\ task.t = "err"
     /\ PreCalls # <<>>
     /\ PreCalls[Len(PreCalls)].outcome.t = "err")
        => WrittenStatus = status_code(PreCalls[Len(PreCalls)].outcome.e)

\* C6: when the task panics the process still answers: status 500, content
\* type text/plain, body "Internal Server Error", whatever the environment
\* holds.
C6_PanicIsAnswered ==
    (pc = "exited" /\ task.t = "panic")
        => /\ exit = "ok"
           /\ stdout # <<>>
           /\ WrittenStatus = 500
           /\ \E i \in 1..Len(stdout) :
                 stdout[i] = HeaderLine(str_core.Content_Type, str_core.text_plain)
           /\ WrittenBody = str_core.Internal_Server_Error

\* C7: the body of a failure response the framework itself writes is the
\* fixed message of its status code; no error text and no request detail
\* is part of it.
C7_FailureBodiesAreFixed ==
    (/\ Answered
     /\ \/ task.t \in {"none", "err", "panic"}
        \/ HandleCalls # <<>> /\ HandleCalls[1].outcome.t = "err"
        \/ PostCalls # <<>> /\ PostCalls[Len(PostCalls)].outcome.t = "err")
        => WrittenBody = from_error_message(WrittenStatus)

\* C8: when a header of the Response, other than the reserved Status and
\* Content-Length, has an invalid name or value, the output is solely the
\* 400 response with the body "Bad Request: Invalid header": no header line
\* and no body byte of the offending Response is written.
C8_InvalidHeaderFailsClosed ==
    (Answered /\ task.t = "ok" /\ HasInvalidHeader(task.r))
        => stdout = <<StatusLine(400),
                      ContentLengthLine(Len(str_response.Bad_Request_Invalid_header)),
                      BlankLine,
                      BodyBytes(str_response.Bad_Request_Invalid_header)>>

\* C8, witness: the handler's Response had a header value with CR LF in it
\* beside valid headers, and the 400 was written.
C8_Witness ==
    /\ Answered
    /\ task.t = "ok"
    /\ str_input.X_Evil \in DOMAIN task.r.headers
    /\ ~is_valid_header_value(task.r.headers[str_input.X_Evil])
    /\ str_http.Content_Type \in DOMAIN task.r.headers
    /\ WrittenStatus = 400
    /\ WrittenBody = str_response.Bad_Request_Invalid_header

\* CONTENT_LENGTH is a number larger than the configured maximum body size.
ContentLengthOverMaximum ==
    LET cl == env_var(env, str_request.CONTENT_LENGTH) IN
    /\ cl.ok
    /\ AllDigits(cl.val)
    /\ \/ ExceedsUsize(cl.val)
       \/ DecValue(StripLeadingZeros(cl.val)) > get_max_body_size(env)

\* C9: when CONTENT_LENGTH is larger than the configured maximum body size
\* a 413 is written, no byte of standard input is read, and no middleware
\* and no handler runs.
C9_OversizedLengthRefused ==
    (Answered /\ ContentLengthOverMaximum)
        => /\ WrittenStatus = 413
           /\ consumed = 0
           /\ calls = <<>>

\* C10: a gzip body that decompresses to more than the maximum body size
\* is answered with 413, a malformed one with 400.
C10_GzipFailureStatus ==
    (Answered /\ task.t = "none" /\ needs_gunzip(request))
        => LET run == GzDecoderRun(request.body.val) IN
           IF Len(run.out) > get_max_body_size(env)
           THEN WrittenStatus = 413
           ELSE run.err /\ WrittenStatus = 400

\* C11: during gzip decompression the output buffer never holds more than
\* the configured maximum; the guard is made before a chunk is appended,
\* and decompression aborts with the payload-too-large error at the first
\* chunk that would exceed the maximum, however small the compressed body.
C11_BufferWithinMaximum ==
    LET max_body_size == get_max_body_size(env) IN
    /\ Len(decompressed) <= max_body_size
    /\ pc = "gunzip" =>
          decompressed \o decoder.out = GzDecoderRun(request.body.val).out
    /\ (Answered /\ task.t = "none" /\ needs_gunzip(request)
          /\ decoder.out # <<>>) =>
          /\ Len(decompressed) + Len(decoder.out) > max_body_size
          /\ \E n \in 1..Min(CHUNK_SIZE, Len(decoder.out)) :
                Len(decompressed) + n > max_body_size
          /\ WrittenBody = str_core.Bad_Request_colon
                               \o Display(gzip_too_large_error(max_body_size))

\* C11, witness: the buffer was filled to the maximum by short reads and
\* the next chunk was refused; the compressed body is shorter than the
\* payload.
C11_Witness ==
    /\ Answered
    /\ needs_gunzip(request)
    /\ decoder.out # <<>>
    /\ Len(decompressed) = get_max_body_size(env)
    /\ Len(request.body.val) < Len(decompressed) + Len(decoder.out)

\* The request was ingested with the gzip encoding of payload p as its
\* body and a Content-Encoding of gzip.
IngestedGzipOf(p) ==
    /\ pc \notin {"start", "read_body", "decompress", "gunzip"}
    /\ request.method # "none"
    /\ consumed > 0
    /\ ~GzDecoderRun(SubSeq(stdin, 1, consumed)).err
    /\ GzDecoderRun(SubSeq(stdin, 1, consumed)).out = p
    /\ str_http.content_encoding \in DOMAIN LowerCaseKeys(headers)
    /\ to_ascii_lowercase(LowerCaseKeys(headers)[str_http.content_encoding])
          = str_http.gzip

\* C12: for a payload p and its gzip encoding, if p is no longer than the
\* configured maximum decompression succeeds and the Request body is p byte
\* for byte; if p is longer, decompression returns the payload-too-large
\* error.
C12_GzipRoundTrip ==
    \A p \in {payload_a26} :
        IngestedGzipOf(p) =>
            IF Len(p) <= get_max_body_size(env)
            THEN /\ request.body = Some(p)
                 /\ str_http.content_encoding \notin DOMAIN request.headers
                 /\ task.t = "none" => pc # "exited"
            ELSE /\ Answered
                 /\ task.t = "none"
                 /\ request.body = Some(SubSeq(stdin, 1, consumed))
                 /\ WrittenBody =
                       str_core.Bad_Request_colon
                           \o Display(gzip_too_large_error(get_max_body_size(env)))

\* C12, witness: a payload of exactly the maximum size came through and
\* the request was answered by the pipeline.
C12_Witness ==
    /\ IngestedGzipOf(payload_a26)
    /\ get_max_body_size(env) = Len(payload_a26)
    /\ request.body = Some(payload_a26)
    /\ Answered
    /\ HandleCalls # <<>>

\* No registered route matches the method and path of the ingested Request.
NoRouteMatches ==
    /\ request # NoRequest
    /\ \A i \in 1..Len(app.handlers) :
          ~matches(app.handlers[i], request.path, request.method)

\* C17: when no route matches the request's method and path, the response
\* is 404 and no pre-step, no handler and no post-step is invoked.
C17_NoRouteNoCalls ==
    NoRouteMatches =>
        /\ calls = <<>>
        /\ pc \notin {"pre", "handle", "post"}
        /\ handler = 0
        /\ task.t \in {"none", "err"}
        /\ task.t = "err" => task.e.kind = "RouteNotFound"
        /\ (Answered /\ task.t = "err") => WrittenStatus = 404

\* C17, witness: an application with middlewares answered 404 to a path
\* no route matches, having called nothing.
C17_Witness ==
    /\ NoRouteMatches
    /\ Answered
    /\ task.t = "err"
    /\ WrittenStatus = 404
    /\ app.middlewares > 0
    /\ calls = <<>>

ReservedName(name) ==
    to_ascii_lowercase(name) \in
        {to_ascii_lowercase(str_response.Status),
         to_ascii_lowercase(str_response.Content_Length)}

CookieName(name) ==
    to_ascii_lowercase(name) = to_ascii_lowercase(str_response.Set_Cookie)

\* The Response passes the framer's final header check.
PassesFinalCheck(res) ==
    \A name \in DOMAIN res.headers :
        ReservedName(name)
            \/ (is_valid_header_name(name)
                   /\ is_valid_header_value(res.headers[name]))

\* The cookies of the Response's Set-Cookie header, split.
SplitCookies(res) ==
    LET names == {k \in DOMAIN res.headers : CookieName(k)} IN
    IF names = {} THEN <<>>
    ELSE LET v == res.headers[CHOOSE k \in names : TRUE]
             parts == split_set_cookie_header(v)
         IN IF parts = <<>> THEN <<v>> ELSE parts

\* C20: for a Response that passes the final check the framer writes, in
\* order: one Status line; one line per header that is neither reserved
\* nor Set-Cookie; one Set-Cookie line per split cookie; a Content-Length
\* line exactly when a body is present; an empty line; the body.  A
\* caller-supplied Status or Content-Length header, in any letter case, is
\* never written.
C20_FramerOutput ==
    (Answered /\ task.t = "ok" /\ PassesFinalCheck(task.r)) =>
        LET res == task.r
            plain == {k \in DOMAIN res.headers :
                         ~ReservedName(k) /\ ~CookieName(k)}
            N == Cardinality(plain)
            cookies == SplitCookies(res)
            M == Len(cookies)
        IN /\ Len(stdout) >= N + M + 2
           /\ stdout[1] = StatusLine(res.status)
           /\ \A i \in 2..(N + 1) :
                 /\ stdout[i].t = "header"
                 /\ stdout[i].a \in plain
                 /\ stdout[i] = HeaderLine(stdout[i].a, res.headers[stdout[i].a])
           /\ \A k \in plain :
                 Cardinality({i \in 2..(N + 1) : stdout[i].a = k}) = 1
           /\ \A i \in 1..M : stdout[N + 1 + i] = SetCookieLine(cookies[i])
           /\ SubSeq(stdout, N + M + 2, Len(stdout)) =
                 IF res.body.some
                 THEN <<ContentLengthLine(Len(res.body.val)), BlankLine,
                        BodyBytes(res.body.val)>>
                 ELSE <<BlankLine>>
           /\ \A i \in 1..Len(stdout) :
                 stdout[i].t = "header" => ~ReservedName(stdout[i].a)

\* C20, witness: a Response with a body and a Set-Cookie header holding
\* two cookies was written with two Set-Cookie lines.
C20_Witness ==
    /\ Answered
    /\ task.t = "ok"
    /\ PassesFinalCheck(task.r)
    /\ Len(SplitCookies(task.r)) = 2
    /\ Cardinality({i \in 1..Len(stdout) : stdout[i].t = "set-cookie"}) = 2
    /\ task.r.body.some

\* C19: the Sanitizer accepts a header value exactly when every character
\* is horizontal tab, space or an ASCII character in 0x21..0x7E; a value
\* containing CR, LF, NUL, DEL, another control character or a non-ASCII
\* character is rejected.
C19_SanitizerWhitelist ==
    pc = "validated" =>
        LET value == arg.val
            accepted == ret.val
        IN /\ accepted <=>
                 \A i \in 1..Len(value) :
                     value[i] = 9 \/ value[i] = 32 \/ value[i] \in 33..126
           /\ (\E i \in 1..Len(value) :
                  \/ value[i] \in {13, 10, 0, 127}
                  \/ value[i] < 32 /\ value[i] # 9
                  \/ value[i] > 127) => ~accepted

\* C19, witness: a value of an accepted character followed by a non-ASCII
\* character was rejected.
C19_Witness ==
    /\ pc = "validated"
    /\ Len(arg.val) = 2
    /\ arg.val[1] \in 33..126
    /\ arg.val[2] > 127
    /\ ~ret.val

\* A lookup has been made on the route table: arg and ret are its
\* argument and its result.
Probed == pc = "serve" /\ idx > 0

\* The entries of the table that match the lookup.
Matching ==
    {i \in 1..Len(app.handlers) :
        matches(app.handlers[i], arg.val.path, arg.val.method)}

\* The number of '/'-separated segments of a pattern.
Segments(path_pattern) ==
    1 + Cardinality({i \in 1..Len(path_pattern) : path_pattern[i] = 47})

\* C13: of two registered routes with the same method that both match the
\* request path, one with strictly more path segments than the other,
\* find_handler returns the deeper one, in whatever order they were
\* registered.
C13_DeeperRouteWins ==
    Probed =>
        \A a, b \in Matching :
            Segments(app.handlers[a].path_pattern)
                > Segments(app.handlers[b].path_pattern)
            => /\ ret.some
               /\ ret.val # app.handlers[b].handler_fn
               /\ \E c \in Matching :
                     /\ ret.val = app.handlers[c].handler_fn
                     /\ Segments(app.handlers[c].path_pattern)
                           >= Segments(app.handlers[a].path_pattern)

\* C13, witness: the deeper of two matching routes was registered after
\* the shallower one, and was returned.
C13_Witness ==
    /\ Probed
    /\ \E a, b \in Matching :
          /\ Segments(app.handlers[a].path_pattern)
                > Segments(app.handlers[b].path_pattern)
          /\ app.handlers[a].handler_fn > app.handlers[b].handler_fn
          /\ ret = Some(app.handlers[a].handler_fn)

C15_InvalidPatternNeverMatches ==
    \A i \in 1..Len(app.handlers) :
        LET route == app.handlers[i] IN
        Regex_new(route.path_pattern) = "invalid" =>
            /\ route.compiled_regex \in {"uninit", "invalid"}
            /\ \A p \in Paths \cup {<<>>, route.path_pattern},
                  m \in Methods :
                  ~matches(route, p, m)
            /\ \A p \in Paths, m \in Methods :
                  ~matches(after_matches(route, m), p, m)
            /\ Probed => ret # Some(route.handler_fn)

\* C15, witness: a second lookup with the method of a route whose pattern
\* had failed to compile at the first one found nothing.
C15_Witness ==
    /\ Probed
    /\ idx >= 2
    /\ ret = None
    /\ \E i \in 1..Len(app.handlers) :
          /\ app.handlers[i].compiled_regex = "invalid"
          /\ app.handlers[i].method = arg.val.method

\* The pattern, taken as a whole, matches the whole path: some branch of
\* it, its anchors set aside, matches from the first character to the last.
FullMatch(pattern, p) ==
    \E n \in 1..Len(Branches(pattern)) :
        LET branch == Branches(pattern)[n]
            a == branch # <<>> /\ branch[1] = 94
            z == Len(branch) > (IF a THEN 1 ELSE 0) /\ branch[Len(branch)] = 36
            body == SubSeq(branch, (IF a THEN 2 ELSE 1),
                           (IF z THEN Len(branch) - 1 ELSE Len(branch)))
        IN MatchFrom(body, 1, p, 1, TRUE)

\* p without its leading '^'s and trailing '$'s.
StripOuterAnchors(p) ==
    LET a == Cardinality({i \in 1..Len(p) : \A k \in 1..i : p[k] = 94})
        rest == SubSeq(p, a + 1, Len(p))
        z == Cardinality({i \in 1..Len(rest) :
                             \A k \in i..Len(rest) : rest[k] = 36})
    IN SubSeq(rest, 1, Len(rest) - z)

\* The first part of C16: what registration stores for the pattern given.
PatternStoredAnchored ==
    last.op = "handler" =>
        LET p == last.pattern IN
        IF p = <<>> THEN last.res.panic /\ exit = "panic"
        ELSE LET stored == last.res.route.path_pattern IN
             /\ ~last.res.panic
             /\ stored[1] = 94 /\ stored[Len(stored)] = 36
             /\ IF p[1] = 94 /\ p[Len(p)] = 36
                THEN stored = p
                ELSE stored = <<94>> \o StripOuterAnchors(p) \o <<36>>
             /\ \E i \in 1..Len(app.handlers) :
                   /\ app.handlers[i].handler_fn = last.i
                   /\ app.handlers[i].path_pattern = stored

\* C16: every pattern stored by route registration is anchored: a pattern
\* lacking the leading '^' or the trailing '$' is stored as ^p$ with its
\* outer anchors stripped first, a pattern anchored at both ends is stored
\* unchanged, an empty pattern is rejected, and a path matches a route only
\* if the whole path matches the stored pattern, never a prefix, suffix or
\* substring of it.
C16_StoredPatternsMatchWholePath ==
    /\ PatternStoredAnchored
    /\ Probed =>
          \A i \in Matching :
              FullMatch(app.handlers[i].path_pattern, arg.val.path)

\* C21: for a list of cookies, each a name=value pair followed by
\* ';'-separated attributes in any order, an Expires date with a comma
\* among them, splitting the cookies joined with ', ' returns exactly those
\* cookies, in the same order and with unchanged text.
C21_SplitInvertsJoin ==
    pc = "split" => ret.val = arg.val

\* A name contains a credential-like substring.
CredentialLike(name) ==
    \E p \in SensitivePatterns : Contains(to_ascii_lowercase(name), p)

\* The environment with every credential value blanked: the values of the
\* variables with a credential-like name, and in QUERY_STRING the values
\* of the parameters with a credential-like key.
WithoutCredentials(e) ==
    LET blank(part) ==
            LET eqs == {i \in 1..Len(part) : part[i] = 61}
                k == IF eqs = {} THEN part
                     ELSE SubSeq(part, 1, (CHOOSE i \in eqs : \A j \in eqs : i <= j) - 1)
            IN IF CredentialLike(k) THEN k ELSE part
        RECURSIVE params(_)
        params(qs) ==
            LET amps == {i \in 1..Len(qs) : qs[i] = 38} IN
            IF amps = {} THEN <<blank(qs)>>
            ELSE LET i == CHOOSE x \in amps : \A y \in amps : x <= y
                 IN <<blank(SubSeq(qs, 1, i - 1))>>
                        \o params(SubSeq(qs, i + 1, Len(qs)))
    IN [k \in DOMAIN e |->
           IF k = basic_vars[1] THEN params(e[k])
           ELSE IF CredentialLike(k) THEN <<>>
           ELSE e[k]]

\* C22: the panic-context record does not depend on credential values: in
\* two environments that differ only in the values of variables with a
\* credential-like name, or of QUERY_STRING parameters with a
\* credential-like key, gather_cgi_panic_context returns the same text,
\* with the redaction marker in place of each such value.
C22_ContextHidesCredentials ==
    (pc = "gathered"
        /\ WithoutCredentials(arg.val[1]) = WithoutCredentials(arg.val[2])) =>
        /\ ret.val[1] = ret.val[2]
        /\ ~ret.val[1].panic =>
              \A k \in DOMAIN arg.val[1] :
                  (CredentialLike(k) /\ k # basic_vars[1]) =>
                      /\ Contains(ret.val[1].val,
                                  k \o str_log.eq \o str_log.redacted)
                      /\ arg.val[1][k] # <<>> =>
                            ~Contains(ret.val[1].val, arg.val[1][k])

\* C22, witness: two environments with different Authorization and Cookie
\* values and different values of the token parameter gave one text.
C22_Witness ==
    /\ pc = "gathered"
    /\ WithoutCredentials(arg.val[1]) = WithoutCredentials(arg.val[2])
    /\ {basic_vars[1], http_headers[9], http_headers[10]}
          \subseteq DOMAIN arg.val[1]
    /\ arg.val[1][http_headers[9]] # arg.val[2][http_headers[9]]
    /\ arg.val[1][http_headers[10]] # arg.val[2][http_headers[10]]
    /\ arg.val[1][basic_vars[1]] # arg.val[2][basic_vars[1]]
    /\ ~ret.val[1].panic
    /\ ret.val[1] = ret.val[2]
    /\ Contains(ret.val[1].val, str_log.eq_redacted \o str_log.newline)

\* C23: for a key that is neither QUERY_STRING nor credential-like and for
\* every value, redact_value_for_log returns normally: a value of at most
\* 200 characters unchanged, a longer value as its first 200 characters
\* followed by the truncation marker.
C23_LongValuesTruncated ==
    pc = "redacted" =>
        /\ ~ret.val.panic
        /\ ret.val.val =
              IF Len(arg.val.value) <= 200 THEN as_bytes(arg.val.value)
              ELSE as_bytes(SubSeq(arg.val.value, 1, 200)) \o str_log.truncated
\* C24: a Response made by Response::new, Response::with_status or
\* ResponseBuilder::build and then given any sequence of with_header calls
\* holds all five default security header keys; the value of each is the
\* default, unless the caller set that key with a value the header check
\* accepts, and then it is the value of the caller's last such call.
DefaultSecurityHeaders == inject_default_security_headers(EmptyMap)

LastSet(hs, key) ==
    LET set == {i \in 1..Len(hs) :
                  hs[i].key = key /\ is_header_value_valid(hs[i].value)}
    IN IF set = {} THEN None
       ELSE Some(hs[CHOOSE i \in set : \A j \in set : j <= i].value)

C24_DefaultSecurityHeadersKept ==
    pc = "built" =>
       \A key \in DOMAIN DefaultSecurityHeaders :
          /\ key \in DOMAIN ret.val.headers
          /\ ret.val.headers[key] =
                IF LastSet(arg.val, key) = None THEN DefaultSecurityHeaders[key]
                ELSE LastSet(arg.val, key).val

C24_Witness ==
    /\ pc = "built"
    /\ Len(arg.val) = MaxHeaderCalls
    /\ ret.val.headers[str_http.X_Frame_Options] = str_input.SAMEORIGIN
    /\ ret.val.headers[str_http.X_XSS_Protection] = str_http.mode_block
    /\ arg.val[MaxHeaderCalls].key = str_http.X_Frame_Options
    /\ ~is_header_value_valid(arg.val[MaxHeaderCalls].value)

\* What a step of decompress_gzip_body may do to the Request.
DecompressKeepsFrame ==
    pc \in {"decompress", "gunzip"} =>
         /\ pc' = "exited" => request' = request
         /\ ~needs_gunzip(request) => request' = request
         /\ request' # request =>
               /\ needs_gunzip(request)
               /\ ~GzDecoderRun(request.body.val).err
               /\ Len(GzDecoderRun(request.body.val).out) <= get_max_body_size(env)
               /\ pc' = "find"
               /\ request'.body = Some(GzDecoderRun(request.body.val).out)
               /\ request'.method = request.method
               /\ request'.path = request.path
               /\ DOMAIN request'.headers
                     = DOMAIN request.headers \ {str_http.content_encoding}
               /\ \A k \in DOMAIN request'.headers :
                     request'.headers[k] = request.headers[k]
         /\ (pc' = "find" /\ needs_gunzip(request)) => request' # request

CompleteResponse(out) ==
    /\ out # <<>>
    /\ \A i \in 1..Len(out) : out[i].t = "status" <=> i = 1
    /\ \E b \in 1..Len(out) :
          /\ out[b].t = "blank"
          /\ \A i \in 2..(b - 1) :
                out[i].t \in {"header", "set-cookie", "content-length"}
          /\ \A i \in 2..(b - 2) : out[i].t # "content-length"
          /\ \/ /\ Len(out) = b
                /\ b > 1 => out[b - 1].t # "content-length"
             \/ /\ Len(out) = b + 1
                /\ out[b + 1].t = "body"
                /\ out[b - 1].t = "content-length"
                /\ out[b - 1].n = Len(out[b + 1].b)

C27_TransportsAgree ==
    pc = "dispatched" =>
       \A t \in {"lambda", "cloudrun"} :
          /\ ret.val[t].calls = ret.val.cgi.calls
          /\ ret.val[t].response.status = ret.val.cgi.response.status
          /\ ret.val[t].response.body = ret.val.cgi.response.body

\* C28: with_header accepts a header value exactly when the framer's final
\* check accepts it, and a Response whose header was set through
\* with_header under a valid name is written with its own status, never
\* replaced by the framer's 400.
C28_BuildCheckIsFinalCheck ==
    pc = "framed" =>
       /\ str_input.X_Evil \in DOMAIN ret.val.response.headers
              <=> is_valid_header_value(as_bytes(arg.val))
       /\ ret.val.out[1].n = ret.val.response.status

\* C29: the header map get_cgi_headers builds is the same in whatever
\* order the environment is enumerated, also when two variables stand for
\* the same header name.
C29_HeadersIndependentOfOrder ==
    pc = "ingested" => ret.val[1] = ret.val[2]

\* The response written is one the transport made itself: the 413 and the
\* 400 of the ingestion, the 404 and the 500 for an error or a panic of the
\* task, or the 400 that replaces a Response with an invalid header.
TransportGenerated ==
    /\ Answered
    /\ task.t # "ok" \/ HasInvalidHeader(task.r)

\* C30: an error response the CGI transport generates itself is written
\* with a Content-Type header line and with a line for each default
\* security header, carrying its default value.
C30_ErrorResponsesCarryHeaders ==
    TransportGenerated =>
       /\ \E i \in 1..Len(stdout) :
             stdout[i].t = "header" /\ stdout[i].a = str_core.Content_Type
       /\ \A key \in DOMAIN inject_default_security_headers(EmptyMap) :
             \E i \in 1..Len(stdout) :
                stdout[i] = HeaderLine(key, inject_default_security_headers(EmptyMap)[key])

====
